---- MODULE Spec2Model ----
(***************************************************************************)
(* Device provisioning against a remote catalog (ThingsBoard).             *)
(*                                                                         *)
(* The catalog (assets, attributes, devices, relations, telemetry) is the  *)
(* shared remote state.  A provisioning run is the top-to-bottom execution *)
(* of src/APIProvision.py (Spec) or of src/provision.py (SpecLegacy); its  *)
(* position is run[p].pc, one action per remote call.  Every remote call   *)
(* takes its answer (HTTP status, or a raised request error) from the      *)
(* environment.  A mutating call that fails leaves the catalog unchanged.  *)
(* The catalog enforces no uniqueness of names or of relations: every      *)
(* successful create adds an entity.                                       *)
(***************************************************************************)
EXTENDS Integers, Sequences, FiniteSets, TLC

(* ------------------------------ bounds --------------------------------- *)

\* number of provisioning runs started in one behaviour
MaxRuns == 2

(* --------------------------- small helpers ----------------------------- *)

None == << >>

Some(v) == << v >>

\* str.upper() / str.lower() over the names that occur in the model
Upper(n) ==
    CASE n = "uk" -> "UK"
      [] n = "fr" -> "FR"
      [] n = "london" -> "LONDON"
      [] n = "state" -> "STATE"
      [] n = "State" -> "STATE"
      [] n = "Country" -> "COUNTRY"
      [] n = "Sensor" -> "SENSOR"
      [] n = "France" -> "FRANCE"
      [] n = "Paris" -> "PARIS"
      [] OTHER -> n

(* ------------------------- catalog constants --------------------------- *)

\* assets that may exist in the catalog before the first run
PreAssets ==
    { [id |-> 1, name |-> "UK", type |-> "Country"],
      [id |-> 2, name |-> "FR", type |-> "Country"],
      [id |-> 3, name |-> "london", type |-> "Region"] }

\* first id the catalog hands out to a created entity
FirstFreshId == Cardinality(PreAssets) + 1

\* the credentialsId the catalog issues for a device: one per device, stable
CredentialOf(deviceId) == 1000 + deviceId

\* asset profiles and device profiles known to the catalog
AssetProfiles ==
    { [name |-> "Country", id |-> "ap-country"],
      [name |-> "State", id |-> "ap-state"] }

DeviceProfiles == { [name |-> "Sensor", id |-> "dp-sensor"] }

(* --------------------------- configuration ----------------------------- *)

\* config.properties files a run may be started with
Configs ==
    { [country |-> "UK", state |-> "LONDON", country_profile_name |-> "Country",
       state_profile_name |-> "State", device_profile_name |-> "Sensor"],
      [country |-> "fr", state |-> "LONDON", country_profile_name |-> "Country",
       state_profile_name |-> "State", device_profile_name |-> "Sensor"],
      [country |-> "DE", state |-> "LONDON", country_profile_name |-> "Country",
       state_profile_name |-> "State", device_profile_name |-> "Sensor"],
      [country |-> "UK", state |-> "LONDON", country_profile_name |-> "Country",
       state_profile_name |-> "state", device_profile_name |-> "Sensor"],
      [country |-> "UK", state |-> "LONDON", country_profile_name |-> "Nation",
       state_profile_name |-> "State", device_profile_name |-> "Sensor"],
      [country |-> "UK", state |-> "LONDON", country_profile_name |-> "Country",
       state_profile_name |-> "State", device_profile_name |-> "Gateway"],
      [country |-> "UK", state |-> "uk", country_profile_name |-> "Country",
       state_profile_name |-> "State", device_profile_name |-> "Sensor"] }

\* location.latitude / location.longitude of config.properties
ConfigLat == 19

ConfigLon == 72

\* assets.serial_number
SERIAL_NUMBER == "SN1"

\* socket.gethostname(): the same machine in every run
HostName == "host1"

(* -------------- src/extract_and_save_assets.py: strings --------------- *)

\* the ETL compares, folds and searches strings: a string is the sequence of
\* its characters
Lowercase ==
    << "a", "b", "c", "d", "e", "f", "g", "h", "i", "j", "k", "l", "m",
       "n", "o", "p", "q", "r", "s", "t", "u", "v", "w", "x", "y", "z" >>

Uppercase ==
    << "A", "B", "C", "D", "E", "F", "G", "H", "I", "J", "K", "L", "M",
       "N", "O", "P", "Q", "R", "S", "T", "U", "V", "W", "X", "Y", "Z" >>

\* the character of "to" at the place c has in "from"; c when it has none
CharTo(from, to, c) ==
    IF \E i \in 1..Len(from) : from[i] = c
    THEN to[CHOOSE i \in 1..Len(from) : from[i] = c]
    ELSE c

\* str.lower()
str_lower(s) == [i \in 1..Len(s) |-> CharTo(Uppercase, Lowercase, s[i])]

\* str.upper()
str_upper(s) == [i \in 1..Len(s) |-> CharTo(Lowercase, Uppercase, s[i])]

\* k in s, for strings
str_in(k, s) ==
    \E i \in 0..(Len(s) - Len(k)) : SubSeq(s, i + 1, i + Len(k)) = k

\* a Python dict: its items in insertion order, as records [key, value]
DictHas(d, k) == \E i \in 1..Len(d) : d[i].key = k

DictGet(d, k) == d[CHOOSE i \in 1..Len(d) : d[i].key = k].value

\* d[k] = v: a new key goes last, a known key keeps its place
DictPut(d, k, v) ==
    IF DictHas(d, k)
    THEN [i \in 1..Len(d) |-> IF d[i].key = k THEN [key |-> k, value |-> v]
                               ELSE d[i]]
    ELSE Append(d, [key |-> k, value |-> v])

(* --------------- src/extract_and_save_assets.py: inputs ---------------- *)

\* number of ETL passes in one behaviour
MaxPasses == 2

\* number of calls made on one device service object
MaxCalls == 3

\* number of database faults in one behaviour: a refused connection, a
\* statement that raises, a commit that raises
MaxFaults == 1

\* the [profiles] section of config.properties
EtlConfigs ==
    { [country_profile_name |-> << "C", "o", "u", "n", "t", "r", "y" >>, state_profile_name |-> << "S", "t", "a", "t", "e" >>,
       device_profile_name |-> << "S", "e", "n", "s", "o", "r" >>],
      [country_profile_name |-> << "N", "a", "t", "i", "o", "n" >>, state_profile_name |-> << "R", "e", "g", "i", "o", "n" >>,
       device_profile_name |-> << "W", "i", "d", "g", "e", "t" >>] }

NoEtlConfig ==
    [country_profile_name |-> << >>, state_profile_name |-> << >>,
     device_profile_name |-> << >>]

\* a remote id is << its first 8 characters, the rest >>
AssetUK ==
    [id |-> << << "0", "0", "0", "0", "c", "0", "0", "1" >>, "a" >>, name |-> << "U", "K" >>, type |-> << "C", "o", "u", "n", "t", "r", "y" >>]

AssetUK2 ==
    [id |-> << << "0", "0", "0", "0", "c", "0", "0", "2" >>, "a" >>, name |-> << "U", "K" >>, type |-> << "N", "a", "t", "i", "o", "n" >>]

AssetLondon ==
    [id |-> << << "0", "0", "0", "0", "a", "0", "0", "1" >>, "a" >>, name |-> << "L", "O", "N", "D", "O", "N" >>, type |-> << "S", "t", "a", "t", "e" >>]

AssetSensor ==
    [id |-> << << "0", "0", "0", "0", "e", "0", "0", "1" >>, "a" >>, name |-> << "s", "e", "n", "s", "o", "r", "-", "1" >>, type |-> << "W", "i", "d", "g", "e", "t" >>]

AssetFR ==
    [id |-> << << "0", "0", "0", "0", "c", "0", "0", "3" >>, "a" >>, name |-> << "F", "R" >>, type |-> << "W", "i", "d", "g", "e", "t" >>]

AssetNY ==
    [id |-> << << "0", "0", "0", "0", "a", "0", "0", "2" >>, "a" >>, name |-> << "N", "Y" >>, type |-> << "R", "e", "g", "i", "o", "n" >>]

AssetWales ==
    [id |-> << << "0", "0", "0", "0", "c", "0", "0", "4" >>, "a" >>, name |-> << "W", "a", "l", "e", "s" >>, type |-> << "T", "e", "r", "r", "i", "t", "o", "r", "y" >>]

AssetOhio ==
    [id |-> << << "0", "0", "0", "0", "a", "0", "0", "3" >>, "a" >>, name |-> << "O", "h", "i", "o", " ", "S", "t", "a", "t", "e" >>, type |-> << "W", "i", "d", "g", "e", "t" >>]

AssetS1 ==
    [id |-> << << "0", "0", "0", "0", "e", "0", "0", "2" >>, "a" >>, name |-> << "S", "1" >>, type |-> << "S", "e", "n", "s", "o", "r" >>]

DeviceHost ==
    [id |-> << << "0", "0", "0", "0", "d", "0", "0", "1" >>, "a" >>, name |-> << "h", "o", "s", "t", "1" >>, label |-> << "h", "o", "s", "t", "1" >>]

DeviceHost3 ==
    [id |-> << << "0", "0", "0", "0", "d", "0", "0", "1" >>, "c" >>, name |-> << "h", "o", "s", "t", "2" >>, label |-> << >>]

DeviceHost2 ==
    [id |-> << << "0", "0", "0", "0", "d", "0", "0", "1" >>, "b" >>, name |-> << "h", "o", "s", "t", "1" >>, label |-> << >>]

ContainsEdge(from, to) ==
    [from |-> from.id, fromType |-> "ASSET", to |-> to.id, toType |-> "ASSET",
     type |-> "Contains"]

NoCatalog == [assets |-> << >>, devices |-> << >>, relations |-> << >>]

\* what the catalog may list, assets and devices sorted by name
Catalogs ==
    { [assets |-> << AssetLondon, AssetUK, AssetSensor >>,
       devices |-> << DeviceHost2, DeviceHost3 >>,
       relations |-> << ContainsEdge(AssetUK, AssetLondon) >>],
      [assets |-> << AssetFR, AssetNY, AssetUK, AssetUK2 >>,
       devices |-> << >>,
       relations |-> << ContainsEdge(AssetUK2, AssetNY) >>],
      [assets |-> << AssetOhio, AssetS1, AssetWales >>,
       devices |-> << DeviceHost, DeviceHost2 >>,
       relations |-> << ContainsEdge(AssetWales, AssetOhio),
                        ContainsEdge(AssetS1, AssetOhio) >>],
      [assets |-> << >>, devices |-> << DeviceHost >>, relations |-> << >>] }

\* what the operator may type at the prompt
Responses == { << "y" >>, << "Y" >>, << "n" >>, << "y", "e", "s" >>, << >> }

\* the sink before the first pass: empty tables, fresh id sequences
EmptyDb ==
    [country_asset |-> {}, state_asset |-> {}, devices |-> {},
     country_id_seq |-> 1, state_id_seq |-> 1, device_id_seq |-> 1]

\* the variables of main() before a pass
EtlIdle ==
    [pc |-> "idle", pass |-> 0, cfg |-> NoEtlConfig,
     assets |-> << >>, tb_devices |-> << >>,
     countries |-> << >>, states |-> << >>, asset_devices |-> << >>,
     relations |-> << >>, state_country_relations |-> << >>,
     response |-> << >>, country_mapping |-> << >>, state_mapping |-> << >>,
     fetched |-> [of |-> "", answers |-> << >>],
     prev |-> [saved |-> FALSE, cfg |-> NoEtlConfig, assets |-> << >>,
               tb_devices |-> << >>, relations |-> << >>],
     rerun |-> FALSE, db0 |-> EmptyDb, log |-> << >>, outcome |-> "",
     faults |-> 0,
     asked |-> [who |-> [raised |-> FALSE, status |-> 0],
                list |-> [raised |-> FALSE, status |-> 0]]]

\* no ThingsBoardDeviceService object yet
NoService == [built |-> FALSE, json_error_is_request_error |-> FALSE,
              results |-> << >>]

VARIABLES
    assets,      \* catalog: set of [id, name, type]
    attrs,       \* catalog: SERVER_SCOPE attributes, set of [id, latitude, longitude]
    devices,     \* catalog: set of [id, name, label]
    relations,   \* catalog: stored relations in the order they were saved
    telemetry,   \* catalog: telemetry samples received
    nextId,      \* catalog: next entity id
    run,         \* per process: the run in progress (script variables, pc, calls)
    hist,        \* finished runs: [script, country, state, device, outcome]
    assets0,     \* the assets of the initial catalog
    probeMissed, \* some relation probe answered non-200 for a stored relation
    tb,          \* ETL: what the catalog lists (assets, devices, relations)
    db,          \* ETL: the relational sink (tables and their id sequences)
    etl,         \* ETL: the pass in progress (variables of main, pc, log)
    returned,    \* ETL: the ids the country batches returned, per name
    svc          \* device service: the object and the results it handed back

vars == << assets, attrs, devices, relations, telemetry, nextId, run, hist,
           assets0, probeMissed, tb, db, etl, returned, svc >>

\* what the provisioning scripts leave alone: the state of
\* src/extract_and_save_assets.py and of the device service
etlvars == << tb, db, etl, returned, svc >>

\* what the ETL leaves alone: the state of the provisioning scripts and of
\* the device service
provvars == << assets, attrs, devices, relations, telemetry, nextId, run, hist,
               assets0, probeMissed, svc >>

catalog == << assets, attrs, devices, relations, telemetry, nextId >>

Procs == {1, 2}

\* the processes of the sequential specification
SeqProcs == {1}

NoAsset == [id |-> 0, name |-> "", type |-> ""]

NoDevice == [id |-> 0, name |-> "", label |-> ""]

NoConfig ==
    [country |-> "", state |-> "", country_profile_name |-> "",
     state_profile_name |-> "", device_profile_name |-> ""]

\* what the geolocation service answered, before a run has asked
NoLocation ==
    [raised |-> TRUE, latitude |-> None, longitude |-> None,
     country_name |-> "", region |-> "", city |-> ""]

IdleRun ==
    [pc |-> "idle", script |-> "", cfg |-> NoConfig,
     COUNTRY_NAME |-> "", STATE_NAME |-> "", LAT |-> 0, LON |-> 0,
     location_data |-> NoLocation, detected |-> << None, None, None, None >>,
     DEVICE_NAME |-> "",
     country_profile_id |-> None, state_profile_id |-> None,
     device_profile_id |-> None, all_assets |-> {},
     country_asset |-> NoAsset, state_asset |-> NoAsset, state_found |-> FALSE,
     probe_status |-> 0, device |-> NoDevice, device_token |-> None,
     outcome |-> "", exit_status |-> None, calls |-> << >>]

\* one remote request as the catalog sees it; auth is "bearer" when the request
\* carries HEADERS (X-Authorization: Bearer JWT_TOKEN)
NoCall ==
    [op |-> "", name |-> "", prof |-> "", x |-> 0, y |-> 0, lat |-> 0, lon |-> 0,
     status |-> 0, auth |-> "bearer", ok |-> TRUE]

\* faulty variant: a create-asset request that failed is sent once more
LoggedRetry(r, c) ==
    [r EXCEPT !.calls = IF c.op = "createAsset" /\ ~c.ok
                        THEN Append(Append(@, c), c)
                        ELSE Append(@, c)]

\* one request sent: the run's record of its calls
Logged(r, c) == [r EXCEPT !.calls = Append(@, c)]

\* the request was answered with the status a success has
Answered(resp, good) == ~resp.raised /\ resp.status \in good

Running(p) == run[p].pc \notin {"idle", "halted"}

\* faulty variant: a run that ends with remediation guidance exits with 0
ExitStatusGuidanceZero(outcome) ==
    IF outcome \in {"Done", "ProfileNotFound", "CountryNotFound"} THEN 0 ELSE 1

\* the exit status of the interpreter: 0 at the end of the script, 1 after
\* exit(1) and after an unhandled exception
ExitStatus(outcome) == IF outcome = "Done" THEN 0 ELSE 1

\* exit(1), an unhandled exception, or the end of the script
Halt(p, r, outcome) ==
    /\ run' = [run EXCEPT ![p] = [r EXCEPT !.pc = "halted", !.outcome = outcome,
                                          !.exit_status = Some(ExitStatus(outcome))]]
    /\ hist' = Append(hist, [script |-> r.script, country |-> r.cfg.country,
                             state |-> r.cfg.state, device |-> r.device.id,
                             outcome |-> outcome])

Goto(p, r, pc) ==
    /\ run' = [run EXCEPT ![p] = [r EXCEPT !.pc = pc]]
    /\ hist' = hist

Init ==
    /\ assets \in SUBSET PreAssets
    /\ attrs = {}
    /\ devices = {}
    /\ relations = << >>
    /\ telemetry = << >>
    /\ nextId = FirstFreshId
    /\ run = [p \in Procs |-> IdleRun]
    /\ hist = << >>
    /\ assets0 = assets
    /\ probeMissed = FALSE
    /\ tb = NoCatalog
    /\ db = EmptyDb
    /\ etl = EtlIdle
    /\ returned = {}
    /\ svc = NoService

(* ------------------- src/APIProvision.py: functions -------------------- *)

\* Python truthiness of an optional number: None and 0 are falsy
Truthy(o) == o # None /\ o[1] # 0

\* answers the geolocation service may give: a request error, or a JSON body
\* in which latitude / longitude may be missing (None) or zero; the body
\* names the country, region and city of the machine
LocationAnswers ==
    { NoLocation } \cup
    { [raised |-> FALSE, latitude |-> la, longitude |-> lo,
       country_name |-> "France", region |-> "Paris", city |-> "Paris"] :
        la \in {None, Some(0), Some(51)}, lo \in {None, Some(7)} }

\* returns <<latitude, longitude, country_name, state_name>>, or four None on
\* any failure
get_laptop_location_and_address(resp) ==
    IF resp.raised THEN << None, None, None, None >>
    ELSE IF Truthy(resp.latitude) /\ Truthy(resp.longitude)
         THEN << resp.latitude, resp.longitude,
                 Some(IF resp.country_name # "Unknown"
                      THEN Upper(resp.country_name) ELSE "UNKNOWN"),
                 Some(IF resp.region # "Unknown"
                      THEN Upper(resp.region) ELSE Upper(resp.city)) >>
         ELSE << None, None, None, None >>

\* faulty variant: the fallback is the origin, not the configured location
ResolveCoordinatesZero(found) ==
    IF found[1] # None /\ found[2] # None
    THEN << found[1][1], found[2][1] >>
    ELSE << 0, 0 >>

\* LAT, LON after the module-level fallback to config coordinates
ResolveCoordinates(found) ==
    IF found[1] # None /\ found[2] # None
    THEN << found[1][1], found[2][1] >>
    ELSE << ConfigLat, ConfigLon >>

\* faulty variant: the names the lookup detected replace the configured ones
ResolveNamesDetected(cfg, found) ==
    IF found[3] # None /\ found[4] # None
    THEN << found[3][1], found[4][1] >>
    ELSE << cfg.country, cfg.state >>

\* COUNTRY_NAME, STATE_NAME: read from the configuration; the names of the
\* lookup are unpacked into "_" and dropped
ResolveNames(cfg, found) == << cfg.country, cfg.state >>

generate_device_name(country, state) == HostName

\* answers of GET /api/auth/user
WhoamiAnswers ==
    { [raised |-> TRUE, status |-> 0] } \cup
    { [raised |-> FALSE, status |-> st] : st \in {200, 401, 403, 500} }

\* faulty variant: only 401 and 403 are refused
validate_token_denylist(resp) == ~resp.raised /\ resp.status \notin {401, 403}

validate_token(resp) == ~resp.raised /\ resp.status = 200

\* faulty variant: the profile name is compared ignoring case
ProfileIdByNameIgnoreCase(profiles, profile_name) ==
    LET page == { pr \in profiles : Upper(pr.name) = Upper(profile_name) }
    IN  IF page = {} THEN None ELSE Some((CHOOSE pr \in page : TRUE).id)

\* the page the catalog returns for textSearch = profile_name (a
\* case-insensitive filter), then the script's exact comparison of names
ProfileIdByName(profiles, profile_name) ==
    LET page == { pr \in profiles : Upper(pr.name) = Upper(profile_name) }
        hits == { pr \in page : pr.name = profile_name }
    IN  IF hits = {} THEN None ELSE Some((CHOOSE pr \in hits : TRUE).id)

get_asset_profile_id_by_name(profile_name) ==
    ProfileIdByName(AssetProfiles, profile_name)

get_device_profile_id_by_name(profile_name) ==
    ProfileIdByName(DeviceProfiles, profile_name)

\* faulty variant: only the wanted name is put in upper case
MatchByNameUpperOnly(listing, name) == { a \in listing : a.name = Upper(name) }

\* faulty variant: only assets of type Country are searched
MatchByNameCountryType(listing, name) ==
    { a \in listing : Upper(a.name) = Upper(name) /\ a.type = "Country" }

\* faulty variant: the names are compared as they are written
MatchByNameExact(listing, name) == { a \in listing : a.name = name }

\* the assets of a listing whose name matches, ignoring case and type; the
\* script takes the first one in listing order
MatchByName(listing, name) == { a \in listing : Upper(a.name) = Upper(name) }

\* faulty variant: the test is inverted
check_relation_exists_inverted(status) == status # 200

\* faulty variant: the probe compares with 201
check_relation_exists_201(status) == status = 201

\* faulty variant: every answer below 500 counts as "exists"
check_relation_exists_lt500(status) == status < 500

\* faulty variant: only 404 counts as "absent"
check_relation_exists_not404(status) == status # 404

check_relation_exists(status) == status = 200

\* the relation (parent) -Contains-> (child) is stored in the catalog
Linked(rels, parent_id, child_id) ==
    \E i \in 1..Len(rels) : rels[i].from = parent_id /\ rels[i].to = child_id

Relation(from, fromType, to, toType) ==
    [from |-> from, fromType |-> fromType, to |-> to, toType |-> toType,
     type |-> "Contains"]

(* ---------------- src/APIProvision.py: module execution ---------------- *)

\* load_config and the module-level constants read from it; exit(1) when
\* config.properties does not exist
StartRun(p) ==
    /\ ~Running(p)
    /\ Len(hist) + Cardinality({ q \in Procs : Running(q) }) < MaxRuns
    /\ \/ \E cfg \in Configs :
            Goto(p, [IdleRun EXCEPT !.script = "APIProvision", !.cfg = cfg,
                                    !.COUNTRY_NAME = cfg.country,
                                    !.STATE_NAME = cfg.state], "locate")
       \/ Halt(p, [IdleRun EXCEPT !.script = "APIProvision"], "ConfigMissing")
    /\ UNCHANGED << catalog, assets0, etlvars, probeMissed >>

\* LAT, LON: the location lookup and the fallback; DEVICE_NAME
Locate(p) ==
    /\ run[p].pc = "locate"
    /\ \E resp \in LocationAnswers :
         LET found == get_laptop_location_and_address(resp)
             c == ResolveCoordinates(found)
             n == ResolveNames(run[p].cfg, found)
             r == [run[p] EXCEPT !.LAT = c[1], !.LON = c[2],
                     !.location_data = resp, !.detected = found,
                     !.COUNTRY_NAME = n[1], !.STATE_NAME = n[2],
                     !.DEVICE_NAME = generate_device_name(n[1], n[2])]
         IN  Goto(p, r, "validate")
    /\ UNCHANGED << catalog, assets0, etlvars, probeMissed >>

\* Step 0: validate_token, exit(1) on failure; the answer of the location
\* lookup is not read from here on
Validate(p) ==
    /\ run[p].pc = "validate"
    /\ \E resp \in WhoamiAnswers :
         LET r == Logged([run[p] EXCEPT !.location_data = NoLocation],
                         [NoCall EXCEPT !.op = "whoami",
                                    !.status = resp.status,
                                    !.ok = Answered(resp, {200})])
         IN  IF validate_token(resp)
             THEN Goto(p, r, "list0")
             ELSE Halt(p, r, "AuthError")
    /\ UNCHANGED << catalog, assets0, etlvars, probeMissed >>

\* Step 0.1: list_all_assets() for debugging; its result is dropped and a
\* failed request is absorbed
DebugList(p) ==
    /\ run[p].pc = "list0"
    /\ \E ok \in BOOLEAN :
         Goto(p, Logged(run[p], [NoCall EXCEPT !.op = "listAssets", !.ok = ok]),
              "profC")
    /\ UNCHANGED << catalog, assets0, etlvars, probeMissed >>

\* Step 0.5, first lookup; raise_for_status is not caught
CountryProfile(p) ==
    /\ run[p].pc = "profC"
    /\ \E ok \in BOOLEAN :
         LET r == Logged(run[p], [NoCall EXCEPT !.op = "assetProfiles",
                                    !.name = run[p].cfg.country_profile_name,
                                    !.ok = ok])
         IN  IF ok
             THEN Goto(p, [r EXCEPT !.country_profile_id =
                             get_asset_profile_id_by_name(r.cfg.country_profile_name)],
                       "profS")
             ELSE Halt(p, r, "Crash")
    /\ UNCHANGED << catalog, assets0, etlvars, probeMissed >>

\* Step 0.5, second lookup
StateProfile(p) ==
    /\ run[p].pc = "profS"
    /\ \E ok \in BOOLEAN :
         LET r == Logged(run[p], [NoCall EXCEPT !.op = "assetProfiles",
                                    !.name = run[p].cfg.state_profile_name,
                                    !.ok = ok])
         IN  IF ok
             THEN Goto(p, [r EXCEPT !.state_profile_id =
                             get_asset_profile_id_by_name(r.cfg.state_profile_name)],
                       "profD")
             ELSE Halt(p, r, "Crash")
    /\ UNCHANGED << catalog, assets0, etlvars, probeMissed >>

\* the three "if not ..._profile_id" tests
ProfilesResolved(r) ==
    /\ r.country_profile_id # None
    /\ r.state_profile_id # None
    /\ r.device_profile_id # None

\* get_all_profiles(): two listings, request errors absorbed
WithAllProfiles(r, ok1, ok2) ==
    Logged(Logged(r, [NoCall EXCEPT !.op = "allAssetProfiles", !.ok = ok1]),
           [NoCall EXCEPT !.op = "allDeviceProfiles", !.ok = ok2])

\* Step 0.5, third lookup and the three tests: the first missing profile is
\* reported with get_all_profiles() and exit(1)
DeviceProfile(p) ==
    /\ run[p].pc = "profD"
    /\ \E ok \in BOOLEAN :
         LET r0 == Logged(run[p], [NoCall EXCEPT !.op = "deviceProfiles",
                                     !.name = run[p].cfg.device_profile_name,
                                     !.ok = ok])
             r == [r0 EXCEPT !.device_profile_id =
                     get_device_profile_id_by_name(r0.cfg.device_profile_name)]
         IN  IF ~ok THEN Halt(p, r0, "Crash")
             ELSE IF ProfilesResolved(r) THEN Goto(p, r, "list1")
             ELSE \E ok1 \in BOOLEAN, ok2 \in BOOLEAN :
                    Halt(p, WithAllProfiles(r, ok1, ok2), "ProfileNotFound")
    /\ UNCHANGED << catalog, assets0, etlvars, probeMissed >>

\* faulty variant: the error of the request is not looked at
list_all_assets_unchecked(ok, data) == data

\* list_all_assets(): the assets of the tenant, [] when the request or
\* raise_for_status() raised
list_all_assets(ok, data) == IF ok THEN data ELSE {}

\* Step 1 and the search of Step 2: all_assets = list_all_assets() (an empty
\* list when the request fails), the country by name or exit(1), then the
\* state by name in the same listing
ListAndFind(p) ==
    /\ run[p].pc = "list1"
    /\ \E ok \in BOOLEAN :
         LET listing == list_all_assets(ok, assets)
             r == [Logged(run[p], [NoCall EXCEPT !.op = "listAssets", !.ok = ok])
                     EXCEPT !.all_assets = listing]
             countries == MatchByName(listing, r.COUNTRY_NAME)
             states == MatchByName(listing, r.STATE_NAME)
         IN  IF countries = {} THEN Halt(p, r, "CountryNotFound")
             ELSE \E c \in countries :
                    IF states = {}
                    THEN Goto(p, [r EXCEPT !.country_asset = c], "createState")
                    ELSE \E s \in states :
                           Goto(p, [r EXCEPT !.country_asset = c,
                                      !.state_asset = s, !.state_found = TRUE],
                                "probe")
    /\ UNCHANGED << catalog, assets0, etlvars, probeMissed >>


\* answers of POST /api/asset
CreateAssetAnswers ==
    { [raised |-> TRUE, status |-> 0] } \cup
    { [raised |-> FALSE, status |-> st] : st \in {200, 403, 500} }

\* faulty variant: the status of the answer is not looked at
create_asset_unchecked(resp) == ~resp.raised

\* create_asset returns the created asset unless the request raises, answers
\* 403 (raise Exception) or fails raise_for_status
create_asset_ok(resp) == ~resp.raised /\ resp.status # 403 /\ resp.status = 200

\* the catalog stores attributes per entity; a later write replaces them
WithAttributes(as, id, latitude, longitude) ==
    { a \in as : a.id # id } \cup
    { [id |-> id, latitude |-> latitude, longitude |-> longitude] }

\* faulty variant: the state is created with the country profile
StatePayloadCountryProfile(r) ==
    [name |-> r.STATE_NAME, prof |-> r.country_profile_id[1],
     type |-> r.cfg.state_profile_name]

\* the arguments of the create_asset call of Step 2
StatePayload(r) ==
    [name |-> r.STATE_NAME, prof |-> r.state_profile_id[1],
     type |-> r.cfg.state_profile_name]

\* Step 2: create_asset(STATE_NAME, state_profile_id, STATE_PROFILE_NAME);
\* any exception is caught and ends the script with exit(1)
CreateState(p) ==
    /\ run[p].pc = "createState"
    /\ \E resp \in CreateAssetAnswers :
         LET pay == StatePayload(run[p])
             new == [id |-> nextId, name |-> pay.name, type |-> pay.type]
             r == Logged(run[p], [NoCall EXCEPT !.op = "createAsset",
                                    !.name = pay.name, !.prof = pay.prof,
                                    !.status = resp.status,
                                    !.x = IF create_asset_ok(resp) THEN nextId ELSE 0,
                                    !.ok = Answered(resp, {200})])
         IN  IF create_asset_ok(resp)
             THEN /\ assets' = assets \cup {new}
                  /\ nextId' = nextId + 1
                  /\ Goto(p, [r EXCEPT !.state_asset = new], "stateAttrs")
             ELSE /\ UNCHANGED << assets, nextId >>
                  /\ Halt(p, r, "StateCreateFailed")
    /\ UNCHANGED << attrs, devices, relations, telemetry, assets0, etlvars, probeMissed >>

\* Step 2: send_asset_attributes("ASSET", state_asset id, LAT, LON) inside the
\* same try block
StateAttributes(p) ==
    /\ run[p].pc = "stateAttrs"
    /\ \E ok \in BOOLEAN :
         LET r == Logged(run[p], [NoCall EXCEPT !.op = "setAttributes",
                                    !.x = run[p].state_asset.id,
                                    !.lat = run[p].LAT, !.lon = run[p].LON,
                                    !.ok = ok])
         IN  IF ok
             THEN /\ attrs' = WithAttributes(attrs, r.state_asset.id, r.LAT, r.LON)
                  /\ Goto(p, r, "probe")
             ELSE /\ attrs' = attrs
                  /\ Halt(p, r, "StateCreateFailed")
    /\ UNCHANGED << assets, devices, relations, telemetry, nextId, assets0, etlvars,
                    probeMissed >>

\* answers of GET /api/relation/info: 200 only for a stored relation; any
\* request may also fail with another status or raise
ProbeAnswers(linked) ==
    { [raised |-> TRUE, status |-> 0] } \cup
    { [raised |-> FALSE, status |-> st] :
        st \in (IF linked THEN {200, 500} ELSE {404, 500}) }

\* Step 3: check_relation_exists(country id, state id)
ProbeRelation(p) ==
    /\ run[p].pc = "probe"
    /\ LET linked == Linked(relations, run[p].country_asset.id,
                            run[p].state_asset.id)
       IN  \E resp \in ProbeAnswers(linked) :
             LET r == [Logged(run[p], [NoCall EXCEPT !.op = "relationInfo",
                                         !.x = run[p].country_asset.id,
                                         !.y = run[p].state_asset.id,
                                         !.status = resp.status,
                                         !.ok = Answered(resp, {200, 404})])
                         EXCEPT !.probe_status = resp.status]
             IN  /\ IF resp.raised THEN Halt(p, r, "Crash")
                    ELSE IF check_relation_exists(resp.status)
                         THEN Goto(p, r, "createDevice")
                         ELSE Goto(p, r, "linkState")
                 /\ probeMissed' =
                      (probeMissed \/ (linked /\ ~resp.raised /\ resp.status # 200))
    /\ UNCHANGED << catalog, assets0, etlvars >>

\* Step 3: assign_child_asset(country id, state id)
LinkState(p) ==
    /\ run[p].pc = "linkState"
    /\ \E ok \in BOOLEAN :
         LET r == Logged(run[p], [NoCall EXCEPT !.op = "createRelation",
                                    !.x = run[p].country_asset.id,
                                    !.y = run[p].state_asset.id,
                                    !.name = "ASSET", !.ok = ok])
         IN  IF ok
             THEN /\ relations' = Append(relations,
                        Relation(r.country_asset.id, "ASSET",
                                 r.state_asset.id, "ASSET"))
                  /\ Goto(p, r, "createDevice")
             ELSE /\ relations' = relations
                  /\ Halt(p, r, "Crash")
    /\ UNCHANGED << assets, attrs, devices, telemetry, nextId, assets0, etlvars,
                    probeMissed >>

\* faulty variant: a device of that name is reused
create_device_reuse(devs, id, name) ==
    IF \E d \in devs : d.name = name THEN devs
    ELSE devs \cup { [id |-> id, name |-> name, label |-> name] }

\* what create_device does with the catalog: always a new device
create_device(devs, id, name) ==
    devs \cup { [id |-> id, name |-> name, label |-> name] }

\* Step 4: create_device(DEVICE_NAME, device_profile_id)
CreateDevice(p) ==
    /\ run[p].pc = "createDevice"
    /\ \E ok \in BOOLEAN :
         LET r == Logged(run[p], [NoCall EXCEPT !.op = "createDevice",
                                    !.name = run[p].DEVICE_NAME,
                                    !.prof = run[p].device_profile_id[1],
                                    !.x = IF ok THEN nextId ELSE 0, !.ok = ok])
         IN  IF ok
             THEN /\ devices' = create_device(devices, nextId, r.DEVICE_NAME)
                  /\ nextId' = nextId + 1
                  /\ Goto(p, [r EXCEPT !.device =
                                [id |-> nextId, name |-> r.DEVICE_NAME,
                                 label |-> r.DEVICE_NAME]], "linkDevice")
             ELSE /\ UNCHANGED << devices, nextId >>
                  /\ Halt(p, r, "Crash")
    /\ UNCHANGED << assets, attrs, relations, telemetry, assets0, etlvars, probeMissed >>

\* faulty variant: the relation points from the device to the asset
assign_device_to_asset_reversed(device_id, asset_id) ==
    Relation(device_id, "DEVICE", asset_id, "ASSET")

\* the relation assign_device_to_asset asks the catalog to save
assign_device_to_asset(device_id, asset_id) ==
    Relation(asset_id, "ASSET", device_id, "DEVICE")

\* Step 5: assign_device_to_asset(device id, state id)
LinkDevice(p) ==
    /\ run[p].pc = "linkDevice"
    /\ \E ok \in BOOLEAN :
         LET rel == assign_device_to_asset(run[p].device.id, run[p].state_asset.id)
             r == Logged(run[p], [NoCall EXCEPT !.op = "createRelation",
                                    !.x = rel.from, !.y = rel.to,
                                    !.name = rel.toType, !.ok = ok])
         IN  IF ok
             THEN /\ relations' = Append(relations, rel)
                  /\ Goto(p, r, "credentials")
             ELSE /\ relations' = relations
                  /\ Halt(p, r, "Crash")
    /\ UNCHANGED << assets, attrs, devices, telemetry, nextId, assets0, etlvars,
                    probeMissed >>

\* Step 6: get_device_credentials(device id)
GetCredentials(p) ==
    /\ run[p].pc = "credentials"
    /\ \E ok \in BOOLEAN :
         LET r == Logged(run[p], [NoCall EXCEPT !.op = "getCredentials",
                                    !.x = run[p].device.id, !.ok = ok])
         IN  IF ok
             THEN Goto(p, [r EXCEPT !.device_token =
                             Some(CredentialOf(r.device.id))], "telemetry")
             ELSE Halt(p, r, "Crash")
    /\ UNCHANGED << catalog, assets0, etlvars, probeMissed >>

\* round(random.uniform(20, 40), 2): the ends of the range
TemperatureSamples == {20, 40}

\* faulty variant: the POST carries HEADERS
send_telemetry_with_headers(device_token) ==
    [NoCall EXCEPT !.op = "telemetry", !.x = device_token]

\* the request of send_telemetry: addressed by the token in the URL and
\* posted without HEADERS
send_telemetry(device_token) ==
    [NoCall EXCEPT !.op = "telemetry", !.x = device_token, !.auth = "deviceToken"]

\* Step 6: send_telemetry(device_token)
SendTelemetry(p) ==
    /\ run[p].pc = "telemetry"
    /\ \E ok \in BOOLEAN, t \in TemperatureSamples :
         LET r == Logged(run[p], [send_telemetry(run[p].device_token[1])
                                    EXCEPT !.ok = ok])
         IN  IF ok
             THEN /\ telemetry' = Append(telemetry,
                        [token |-> r.device_token[1],
                         serialNumber |-> SERIAL_NUMBER,
                         country |-> r.COUNTRY_NAME, state |-> r.STATE_NAME,
                         latitude |-> r.LAT, longitude |-> r.LON,
                         temperature |-> t])
                  /\ Halt(p, r, "Done")
             ELSE /\ telemetry' = telemetry
                  /\ Halt(p, r, "Crash")
    /\ UNCHANGED << assets, attrs, devices, relations, nextId, assets0, etlvars,
                    probeMissed >>

Step(p) ==
    \/ StartRun(p)
    \/ Locate(p)
    \/ Validate(p)
    \/ DebugList(p)
    \/ CountryProfile(p)
    \/ StateProfile(p)
    \/ DeviceProfile(p)
    \/ ListAndFind(p)
    \/ CreateState(p)
    \/ StateAttributes(p)
    \/ ProbeRelation(p)
    \/ LinkState(p)
    \/ CreateDevice(p)
    \/ LinkDevice(p)
    \/ GetCredentials(p)
    \/ SendTelemetry(p)

\* provisioning runs one after another
Next == \E p \in SeqProcs : Step(p)

Spec == Init /\ [][Next]_vars

\* the interpreter runs the script to its end: a statement that can run does
\* run, and every request is answered or raises
SpecLive == Spec /\ WF_vars(Next)

\* the configuration of two runs started on one machine at the same time
RaceConfigs ==
    { cfg \in Configs :
        /\ cfg.country = "UK"
        /\ cfg.state = "LONDON"
        /\ cfg.country_profile_name = "Country"
        /\ cfg.state_profile_name = "State"
        /\ cfg.device_profile_name = "Sensor" }

\* two runs of the script at the same time, one per process, their requests
\* interleaved
NextRace ==
    \E p \in Procs :
        /\ run[p].pc # "halted"
        /\ Step(p)
        /\ run'[p].cfg \in RaceConfigs

SpecRace == Init /\ [][NextRace]_vars

(* ------------------ src/provision.py: module execution ----------------- *)

\* the hard-coded inputs of src/provision.py
LegacyConfig ==
    [country |-> "UK", state |-> "LONDON", country_profile_name |-> "Country",
     state_profile_name |-> "State", device_profile_name |-> ""]

LegacyStart(p) ==
    /\ ~Running(p)
    /\ Len(hist) + Cardinality({ q \in Procs : Running(q) }) < MaxRuns
    /\ run' = [run EXCEPT ![p] =
                 [IdleRun EXCEPT !.pc = "legacyCountry", !.script = "provision",
                                 !.cfg = LegacyConfig,
                                 !.COUNTRY_NAME = LegacyConfig.country,
                                 !.STATE_NAME = LegacyConfig.state,
                                 !.LAT = 19, !.LON = 72,
                                 !.DEVICE_NAME = "papaya_UK-001",
                                 !.country_profile_id = Some("COUNTRY_PROFILE_ID"),
                                 !.state_profile_id = Some("STATE_PROFILE_ID"),
                                 !.device_profile_id = Some("DEVICE_PROFILE_ID")]]
    /\ UNCHANGED << catalog, hist, assets0, etlvars, probeMissed >>

\* create_asset(COUNTRY_NAME, COUNTRY_PROFILE_ID, "Country"): no search first
LegacyCreateCountry(p) ==
    /\ run[p].pc = "legacyCountry"
    /\ \E ok \in BOOLEAN :
         LET new == [id |-> nextId, name |-> run[p].COUNTRY_NAME, type |-> "Country"]
             r == Logged(run[p], [NoCall EXCEPT !.op = "createAsset",
                                    !.name = run[p].COUNTRY_NAME,
                                    !.prof = run[p].country_profile_id[1],
                                    !.x = IF ok THEN nextId ELSE 0, !.ok = ok])
         IN  IF ok
             THEN /\ assets' = assets \cup {new}
                  /\ nextId' = nextId + 1
                  /\ Goto(p, [r EXCEPT !.country_asset = new], "legacyCountryAttrs")
             ELSE /\ UNCHANGED << assets, nextId >>
                  /\ Halt(p, r, "Crash")
    /\ UNCHANGED << attrs, devices, relations, telemetry, assets0, etlvars, probeMissed >>

\* send_asset_attributes("ASSET", country id, 55.3781, -3.4360)
LegacyCountryAttributes(p) ==
    /\ run[p].pc = "legacyCountryAttrs"
    /\ \E ok \in BOOLEAN :
         LET r == Logged(run[p], [NoCall EXCEPT !.op = "setAttributes",
                                    !.x = run[p].country_asset.id,
                                    !.lat = 55, !.lon = -3, !.ok = ok])
         IN  IF ok
             THEN /\ attrs' = WithAttributes(attrs, r.country_asset.id, 55, -3)
                  /\ Goto(p, r, "legacyState")
             ELSE /\ attrs' = attrs
                  /\ Halt(p, r, "Crash")
    /\ UNCHANGED << assets, devices, relations, telemetry, nextId, assets0, etlvars,
                    probeMissed >>

\* create_asset(STATE_NAME, STATE_PROFILE_ID, "State"): no search first
LegacyCreateState(p) ==
    /\ run[p].pc = "legacyState"
    /\ \E ok \in BOOLEAN :
         LET new == [id |-> nextId, name |-> run[p].STATE_NAME, type |-> "State"]
             r == Logged(run[p], [NoCall EXCEPT !.op = "createAsset",
                                    !.name = run[p].STATE_NAME,
                                    !.prof = run[p].state_profile_id[1],
                                    !.x = IF ok THEN nextId ELSE 0, !.ok = ok])
         IN  IF ok
             THEN /\ assets' = assets \cup {new}
                  /\ nextId' = nextId + 1
                  /\ Goto(p, [r EXCEPT !.state_asset = new], "legacyStateAttrs")
             ELSE /\ UNCHANGED << assets, nextId >>
                  /\ Halt(p, r, "Crash")
    /\ UNCHANGED << attrs, devices, relations, telemetry, assets0, etlvars, probeMissed >>

\* send_asset_attributes("ASSET", state id, 51.5074, -0.1278); the script
\* goes on with assign_child_asset, create_device, assign_device_to_asset,
\* get_device_credentials and send_telemetry, which are the same functions
LegacyStateAttributes(p) ==
    /\ run[p].pc = "legacyStateAttrs"
    /\ \E ok \in BOOLEAN :
         LET r == Logged(run[p], [NoCall EXCEPT !.op = "setAttributes",
                                    !.x = run[p].state_asset.id,
                                    !.lat = 51, !.lon = 0, !.ok = ok])
         IN  IF ok
             THEN /\ attrs' = WithAttributes(attrs, r.state_asset.id, 51, 0)
                  /\ Goto(p, r, "linkState")
             ELSE /\ attrs' = attrs
                  /\ Halt(p, r, "Crash")
    /\ UNCHANGED << assets, devices, relations, telemetry, nextId, assets0, etlvars,
                    probeMissed >>

LegacyStep(p) ==
    \/ LegacyStart(p)
    \/ LegacyCreateCountry(p)
    \/ LegacyCountryAttributes(p)
    \/ LegacyCreateState(p)
    \/ LegacyStateAttributes(p)
    \/ LinkState(p)
    \/ CreateDevice(p)
    \/ LinkDevice(p)
    \/ GetCredentials(p)
    \/ SendTelemetry(p)

\* runs of src/provision.py one after another
NextLegacy == \E p \in SeqProcs : LegacyStep(p)

SpecLegacy == Init /\ [][NextLegacy]_vars

(* ------------ src/extract_and_save_assets.py: functions --------------- *)

\* validate_token(url, headers): true for an answer of 200 only
\* faulty variant: only a request that raised counts as a failed validation
etl_validate_token_lax(resp) == ~resp.raised

etl_validate_token(resp) == ~resp.raised /\ resp.status = 200

\* answers of the tenant listings and of GET /api/relations
ListAnswers ==
    { [raised |-> TRUE, status |-> 0] } \cup
    { [raised |-> FALSE, status |-> st] : st \in {200, 401, 403, 500} }

\* fetch_thingsboard_assets / fetch_thingsboard_devices: the listed data,
\* [] after 401, 403, any other error status and any exception
Fetched(resp, data) ==
    IF ~resp.raised /\ resp.status = 200 THEN data ELSE << >>

country_types == << << "c", "o", "u", "n", "t", "r", "y" >>, << "n", "a", "t", "i", "o", "n" >>, << "t", "e", "r", "r", "i", "t", "o", "r", "y" >> >>

state_types ==
    << << "s", "t", "a", "t", "e" >>, << "p", "r", "o", "v", "i", "n", "c", "e" >>, << "r", "e", "g", "i", "o", "n" >>, << "t", "e", "r", "r", "i", "t", "o", "r", "y" >>, << "d", "i", "s", "t", "r", "i", "c", "t" >> >>

country_name_keywords == << << "C", "O", "U", "N", "T", "R", "Y" >>, << "N", "A", "T", "I", "O", "N" >> >>

state_name_keywords == << << "S", "T", "A", "T", "E" >>, << "P", "R", "O", "V", "I", "N", "C", "E" >>, << "R", "E", "G", "I", "O", "N" >> >>

\* any(k in s for k in keywords)
AnyIn(keywords, s) == \E i \in 1..Len(keywords) : str_in(keywords[i], s)

\* faulty variant: the name is looked at before the keywords of the type
CategoryNameFirst(asset, cfg) ==
    LET asset_type == str_lower(asset.type)
        asset_name == asset.name
    IN  IF asset_type = str_lower(cfg.country_profile_name) THEN "countries"
        ELSE IF asset_type = str_lower(cfg.state_profile_name) THEN "states"
        ELSE IF asset_type = str_lower(cfg.device_profile_name) THEN "devices"
        ELSE IF \/ Len(asset_name) <= 3
                \/ AnyIn(country_name_keywords, str_upper(asset_name))
             THEN "countries"
        ELSE IF AnyIn(state_name_keywords, str_upper(asset_name)) THEN "states"
        ELSE IF AnyIn(country_types, asset_type) THEN "countries"
        ELSE IF AnyIn(state_types, asset_type) THEN "states"
        ELSE "devices"

\* faulty variant: the type of the asset is compared as it is written
CategoryCaseSensitive(asset, cfg) ==
    LET asset_type == asset.type
        asset_name == asset.name
    IN  IF asset_type = str_lower(cfg.country_profile_name) THEN "countries"
        ELSE IF asset_type = str_lower(cfg.state_profile_name) THEN "states"
        ELSE IF asset_type = str_lower(cfg.device_profile_name) THEN "devices"
        ELSE IF AnyIn(country_types, asset_type) THEN "countries"
        ELSE IF AnyIn(state_types, asset_type) THEN "states"
        ELSE IF \/ Len(asset_name) <= 3
                \/ AnyIn(country_name_keywords, str_upper(asset_name))
             THEN "countries"
        ELSE IF AnyIn(state_name_keywords, str_upper(asset_name)) THEN "states"
        ELSE "devices"

\* the list categorize_assets appends an asset to
Category(asset, cfg) ==
    LET asset_type == str_lower(asset.type)
        asset_name == asset.name
    IN  IF asset_type = str_lower(cfg.country_profile_name) THEN "countries"
        ELSE IF asset_type = str_lower(cfg.state_profile_name) THEN "states"
        ELSE IF asset_type = str_lower(cfg.device_profile_name) THEN "devices"
        ELSE IF AnyIn(country_types, asset_type) THEN "countries"
        ELSE IF AnyIn(state_types, asset_type) THEN "states"
        ELSE IF \/ Len(asset_name) <= 3
                \/ AnyIn(country_name_keywords, str_upper(asset_name))
             THEN "countries"
        ELSE IF AnyIn(state_name_keywords, str_upper(asset_name)) THEN "states"
        ELSE "devices"

\* returns countries, states, devices: the assets in listing order
categorize_assets(as, cfg) ==
    [countries |-> SelectSeq(as, LAMBDA a : Category(a, cfg) = "countries"),
     states |-> SelectSeq(as, LAMBDA a : Category(a, cfg) = "states"),
     devices |-> SelectSeq(as, LAMBDA a : Category(a, cfg) = "devices")]

RECURSIVE ParentOfChild(_, _, _)
\* the loop of get_asset_relations: relations[child_id] = parent_id for
\* every Contains relation between assets, a later one replacing an earlier
ParentOfChild(relations_data, i, d) ==
    IF i > Len(relations_data) THEN d
    ELSE LET rel == relations_data[i]
         IN  ParentOfChild(relations_data, i + 1,
                 IF /\ rel.type = "Contains"
                    /\ rel.fromType = "ASSET"
                    /\ rel.toType = "ASSET"
                 THEN DictPut(d, rel.to, rel.from)
                 ELSE d)

\* {} unless the listing was answered 200
get_asset_relations(resp, relations_data) ==
    IF ~resp.raised /\ resp.status = 200
    THEN ParentOfChild(relations_data, 1, << >>)
    ELSE << >>

RECURSIVE StateCountryLoop(_, _, _, _, _)
StateCountryLoop(states, countries, rels, i, d) ==
    IF i > Len(states) THEN d
    ELSE LET state_id == states[i].id
         IN  StateCountryLoop(states, countries, rels, i + 1,
                 IF /\ DictHas(rels, state_id)
                    /\ \E j \in 1..Len(countries) :
                           countries[j].id = DictGet(rels, state_id)
                 THEN DictPut(d, state_id, DictGet(rels, state_id))
                 ELSE d)

\* state id -> country id, for the states whose recorded parent is a country
find_state_country_mapping(states, countries, rels) ==
    StateCountryLoop(states, countries, rels, 1, << >>)

(* ------------ src/extract_and_save_assets.py: the database ------------- *)

\* The tables have the columns the statements name, a serial key each and
\* the uniqueness the ON CONFLICT targets need.  The statements that create
\* them are not in src/; the foreign keys are those of the persisted schema
\* the specification lists.  created_at is the number of the pass.

DEFAULT_COUNTRY == << "D", "E", "F", "A", "U", "L", "T", "_", "C", "O", "U", "N", "T", "R", "Y" >>

DEFAULT_STATE == << "D", "E", "F", "A", "U", "L", "T", "_", "S", "T", "A", "T", "E" >>

\* state_asset.country_id, devices.country_id: the foreign key is checked
\* when a row is inserted
HasCountry(d, country_id) ==
    \E row \in d.country_asset : row.country_id = country_id

\* devices.state_id: the foreign key is checked when a row is inserted
HasState(d, state_id) == \E row \in d.state_asset : row.state_id = state_id

\* faulty variant: a plain INSERT, the conflict target absent
UpsertCountryPlain(d, country_name, now) ==
    [db |-> [d EXCEPT
                !.country_asset = @ \cup
                    { [country_id |-> d.country_id_seq,
                       country_name |-> country_name,
                       created_at |-> now] },
                !.country_id_seq = @ + 1],
     id |-> d.country_id_seq,
     raised |-> FALSE]

\* INSERT INTO country_asset ... ON CONFLICT (country_name) DO UPDATE SET
\* country_name = EXCLUDED.country_name RETURNING country_id.  The key of
\* the proposed row is drawn from the sequence before the conflict is seen.
UpsertCountry(d, country_name, now) ==
    IF \E row \in d.country_asset : row.country_name = country_name
    THEN [db |-> [d EXCEPT !.country_id_seq = @ + 1],
          id |-> (CHOOSE row \in d.country_asset :
                      row.country_name = country_name).country_id,
          raised |-> FALSE]
    ELSE [db |-> [d EXCEPT
                     !.country_asset = @ \cup
                         { [country_id |-> d.country_id_seq,
                            country_name |-> country_name,
                            created_at |-> now] },
                     !.country_id_seq = @ + 1],
          id |-> d.country_id_seq,
          raised |-> FALSE]

\* faulty variant: a plain INSERT, the conflict target absent
UpsertStatePlain(d, state_name, country_id, now) ==
    IF ~HasCountry(d, country_id)
    THEN [db |-> [d EXCEPT !.state_id_seq = @ + 1], id |-> 0,
          raised |-> TRUE]
    ELSE [db |-> [d EXCEPT
                     !.state_asset = @ \cup
                         { [state_id |-> d.state_id_seq,
                            state_name |-> state_name,
                            country_id |-> country_id,
                            created_at |-> now] },
                     !.state_id_seq = @ + 1],
          id |-> d.state_id_seq,
          raised |-> FALSE]

\* INSERT INTO state_asset ... ON CONFLICT (country_id, state_name) DO
\* UPDATE SET state_name = EXCLUDED.state_name RETURNING state_id
UpsertState(d, state_name, country_id, now) ==
    IF \E row \in d.state_asset :
           row.country_id = country_id /\ row.state_name = state_name
    THEN [db |-> [d EXCEPT !.state_id_seq = @ + 1],
          id |-> (CHOOSE row \in d.state_asset :
                      /\ row.country_id = country_id
                      /\ row.state_name = state_name).state_id,
          raised |-> FALSE]
    ELSE IF ~HasCountry(d, country_id)
    THEN [db |-> [d EXCEPT !.state_id_seq = @ + 1], id |-> 0,
          raised |-> TRUE]
    ELSE [db |-> [d EXCEPT
                     !.state_asset = @ \cup
                         { [state_id |-> d.state_id_seq,
                            state_name |-> state_name,
                            country_id |-> country_id,
                            created_at |-> now] },
                     !.state_id_seq = @ + 1],
          id |-> d.state_id_seq,
          raised |-> FALSE]

\* faulty variant: ON CONFLICT (serial_number) DO NOTHING
UpsertDeviceKeep(d, new, now) ==
    IF \E row \in d.devices : row.serial_number = new.serial_number
    THEN [db |-> [d EXCEPT !.device_id_seq = @ + 1],
          id |-> (CHOOSE row \in d.devices :
                      row.serial_number = new.serial_number).device_id,
          raised |-> FALSE]
    ELSE IF ~HasState(d, new.state_id) \/ ~HasCountry(d, new.country_id)
    THEN [db |-> [d EXCEPT !.device_id_seq = @ + 1], id |-> 0,
          raised |-> TRUE]
    ELSE [db |-> [d EXCEPT
                     !.devices = @ \cup
                         { [device_id |-> d.device_id_seq,
                            device_name |-> new.device_name,
                            serial_number |-> new.serial_number,
                            firmware_version |-> new.firmware_version,
                            location_lat |-> new.location_lat,
                            location_lon |-> new.location_lon,
                            state_id |-> new.state_id,
                            country_id |-> new.country_id,
                            created_at |-> now] },
                     !.device_id_seq = @ + 1],
          id |-> d.device_id_seq,
          raised |-> FALSE]

\* faulty variant: the row in conflict is moved to the state and country of
\* the statement
UpsertDeviceRehome(d, new, now) ==
    IF ~HasState(d, new.state_id) \/ ~HasCountry(d, new.country_id)
    THEN [db |-> [d EXCEPT !.device_id_seq = @ + 1], id |-> 0,
          raised |-> TRUE]
    ELSE IF \E row \in d.devices : row.serial_number = new.serial_number
    THEN LET old == CHOOSE row \in d.devices :
                        row.serial_number = new.serial_number
         IN  [db |-> [d EXCEPT
                         !.devices = (@ \ {old}) \cup
                             { [old EXCEPT
                                   !.device_name = new.device_name,
                                   !.firmware_version = new.firmware_version,
                                   !.location_lat = new.location_lat,
                                   !.location_lon = new.location_lon,
                                   !.state_id = new.state_id,
                                   !.country_id = new.country_id] },
                         !.device_id_seq = @ + 1],
              id |-> old.device_id,
              raised |-> FALSE]
    ELSE [db |-> [d EXCEPT
                     !.devices = @ \cup
                         { [device_id |-> d.device_id_seq,
                            device_name |-> new.device_name,
                            serial_number |-> new.serial_number,
                            firmware_version |-> new.firmware_version,
                            location_lat |-> new.location_lat,
                            location_lon |-> new.location_lon,
                            state_id |-> new.state_id,
                            country_id |-> new.country_id,
                            created_at |-> now] },
                     !.device_id_seq = @ + 1],
          id |-> d.device_id_seq,
          raised |-> FALSE]

\* faulty variant: the row in conflict is deleted and written anew
UpsertDeviceReplace(d, new, now) ==
    IF ~HasState(d, new.state_id) \/ ~HasCountry(d, new.country_id)
    THEN [db |-> [d EXCEPT !.device_id_seq = @ + 1], id |-> 0,
          raised |-> TRUE]
    ELSE [db |-> [d EXCEPT
                     !.devices =
                         { row \in @ :
                             row.serial_number # new.serial_number } \cup
                         { [device_id |-> d.device_id_seq,
                            device_name |-> new.device_name,
                            serial_number |-> new.serial_number,
                            firmware_version |-> new.firmware_version,
                            location_lat |-> new.location_lat,
                            location_lon |-> new.location_lon,
                            state_id |-> new.state_id,
                            country_id |-> new.country_id,
                            created_at |-> now] },
                     !.device_id_seq = @ + 1],
          id |-> d.device_id_seq,
          raised |-> FALSE]

\* INSERT INTO devices ... ON CONFLICT (serial_number) DO UPDATE SET
\* device_name, firmware_version, location_lat, location_lon
\* RETURNING device_id
UpsertDevice(d, new, now) ==
    IF \E row \in d.devices : row.serial_number = new.serial_number
    THEN LET old == CHOOSE row \in d.devices :
                        row.serial_number = new.serial_number
         IN  [db |-> [d EXCEPT
                         !.devices = (@ \ {old}) \cup
                             { [old EXCEPT
                                   !.device_name = new.device_name,
                                   !.firmware_version = new.firmware_version,
                                   !.location_lat = new.location_lat,
                                   !.location_lon = new.location_lon] },
                         !.device_id_seq = @ + 1],
              id |-> old.device_id,
              raised |-> FALSE]
    ELSE IF ~HasState(d, new.state_id) \/ ~HasCountry(d, new.country_id)
    THEN [db |-> [d EXCEPT !.device_id_seq = @ + 1], id |-> 0,
          raised |-> TRUE]
    ELSE [db |-> [d EXCEPT
                     !.devices = @ \cup
                         { [device_id |-> d.device_id_seq,
                            device_name |-> new.device_name,
                            serial_number |-> new.serial_number,
                            firmware_version |-> new.firmware_version,
                            location_lat |-> new.location_lat,
                            location_lon |-> new.location_lon,
                            state_id |-> new.state_id,
                            country_id |-> new.country_id,
                            created_at |-> now] },
                     !.device_id_seq = @ + 1],
          id |-> d.device_id_seq,
          raised |-> FALSE]

\* faulty variant: the except branch leaves the transaction to be committed
RollbackKeepsWrites(before, d) == d

\* conn.rollback(): the rows are as they were when the batch began; the
\* values drawn from the sequences are not given back
Rollback(before, d) ==
    [before EXCEPT !.country_id_seq = d.country_id_seq,
                   !.state_id_seq = d.state_id_seq,
                   !.device_id_seq = d.device_id_seq]

\* end of a batch: conn.commit(), or conn.rollback() when a statement or
\* the commit raised
EndOfBatch(before, d, raised) == IF raised THEN Rollback(before, d) ELSE d

\* a batch as its loop begins
BatchBegin(d) ==
    [db |-> d, mapping |-> << >>, raised |-> FALSE, faulted |-> FALSE]

\* a batch after its loop: the database, the mapping built so far, whether
\* the except branch ran, and whether a fault of the connection caused it
Batch(before, out, commit_fails) ==
    LET raised == out.raised \/ commit_fails
    IN  [db |-> EndOfBatch(before, out.db, raised),
         mapping |-> out.mapping,
         raised |-> raised,
         faulted |-> out.faulted \/ (commit_fails /\ ~out.raised)]

RECURSIVE CountriesLoop(_, _, _, _, _)
\* the loop of save_countries_to_db; statement number fail raises
CountriesLoop(countries, i, fail, now, acc) ==
    IF i > Len(countries) THEN acc
    ELSE IF i = fail THEN [acc EXCEPT !.raised = TRUE, !.faulted = TRUE]
    ELSE LET country == countries[i]
             u == UpsertCountry(acc.db, country.name, now)
         IN  CountriesLoop(countries, i + 1, fail, now,
                 [acc EXCEPT
                     !.db = u.db,
                     !.mapping = DictPut(@, country.id,
                                     [db_id |-> u.id, name |-> country.name])])

\* save_countries_to_db after connect_to_db: the database and the returned
\* country_mapping; fail = Len(countries) + 1 is a commit that raises
save_countries_to_db(d, countries, fail, now) ==
    Batch(d, CountriesLoop(countries, 1, fail, now, BatchBegin(d)),
          fail = Len(countries) + 1)

\* faulty variant: the parent found by the relations is not looked at
StateCountryFirst(d, state, country_mapping, state_country_relations, now) ==
    IF country_mapping # << >>
    THEN [db |-> d, id |-> country_mapping[1].value.db_id, raised |-> FALSE]
    ELSE UpsertCountry(d, DEFAULT_COUNTRY, now)

\* country_id of a state: the saved parent, else the first saved country,
\* else DEFAULT_COUNTRY, written when needed
StateCountry(d, state, country_mapping, state_country_relations, now) ==
    IF /\ DictHas(state_country_relations, state.id)
       /\ DictHas(country_mapping,
                  DictGet(state_country_relations, state.id))
    THEN [db |-> d,
          id |-> DictGet(country_mapping,
                     DictGet(state_country_relations, state.id)).db_id,
          raised |-> FALSE]
    ELSE IF country_mapping # << >>
    THEN [db |-> d, id |-> country_mapping[1].value.db_id, raised |-> FALSE]
    ELSE UpsertCountry(d, DEFAULT_COUNTRY, now)

RECURSIVE StatesLoop(_, _, _, _, _, _, _)
\* the loop of save_states_to_db
StatesLoop(states, country_mapping, state_country_relations, i, fail, now, acc) ==
    IF i > Len(states) THEN acc
    ELSE IF i = fail THEN [acc EXCEPT !.raised = TRUE, !.faulted = TRUE]
    ELSE LET state == states[i]
             c == StateCountry(acc.db, state, country_mapping,
                               state_country_relations, now)
             u == UpsertState(c.db, state.name, c.id, now)
         IN  IF u.raised THEN [acc EXCEPT !.db = u.db, !.raised = TRUE]
             ELSE StatesLoop(states, country_mapping,
                      state_country_relations, i + 1, fail, now,
                      [acc EXCEPT
                          !.db = u.db,
                          !.mapping = DictPut(@, state.id,
                                          [db_id |-> u.id,
                                           name |-> state.name,
                                           country_id |-> c.id])])

save_states_to_db(d, states, country_mapping, state_country_relations, fail, now) ==
    Batch(d, StatesLoop(states, country_mapping, state_country_relations,
                 1, fail, now, BatchBegin(d)),
          fail = Len(states) + 1)

NoAttributes ==
    [raised |-> FALSE, status |-> 500, malformed |-> FALSE,
     latitude |-> None, longitude |-> None, version |-> None]

\* answers of the SERVER_SCOPE attribute listing of an asset or a device:
\* a request error, an error status, a body float() or the loop cannot
\* read, a latitude alone, or everything
AttributeAnswers ==
    { [NoAttributes EXCEPT !.raised = TRUE, !.status = 0],
      NoAttributes,
      [NoAttributes EXCEPT !.status = 200, !.malformed = TRUE],
      [NoAttributes EXCEPT !.status = 200, !.latitude = Some(51)],
      [NoAttributes EXCEPT !.status = 200, !.latitude = Some(51),
                           !.longitude = Some(7),
                           !.version = Some(<< "2", ".", "1" >>)] }

\* answers of the CLIENT_SCOPE attribute listing of a device
ClientAnswers ==
    { [NoAttributes EXCEPT !.raised = TRUE, !.status = 0],
      NoAttributes,
      [NoAttributes EXCEPT !.status = 200, !.latitude = Some(52),
                           !.longitude = Some(8)] }

\* the two listings of a device together: the second is not asked for
\* when the first raised, and answers 200 only where the first did, short
\* of everything
AnswerPairs ==
    { a \in AttributeAnswers \X ClientAnswers :
        /\ a[1].raised => a[2] = NoAttributes
        /\ a[2].status = 200 =>
               a[1].status = 200 /\ ~a[1].malformed /\ a[1].version = None }

\* the model follows every pair of answers for the last device of a batch;
\* a device before it is answered in full or not at all
EarlierAnswers ==
    { a \in AnswerPairs : a[2] = NoAttributes
                           /\ (a[1].raised \/ a[1].version # None) }

DeviceAnswers(n) ==
    { answers \in [1..n -> AnswerPairs] :
        \A i \in 1..(n - 1) : answers[i] \in EarlierAnswers }

\* get_asset_attributes: lat, lon as listed, None where not listed
get_asset_attributes(resp) ==
    IF resp.raised \/ (resp.status = 200 /\ resp.malformed)
    THEN << None, None >>
    ELSE IF resp.status = 200 THEN << resp.latitude, resp.longitude >>
    ELSE << None, None >>

\* get_device_attributes: server scope first, client scope filling what is
\* missing and replacing the version; None, None, "1.0.0" on an exception
get_device_attributes(server, client) ==
    IF \/ server.raised
       \/ server.status = 200 /\ server.malformed
       \/ client.raised
       \/ client.status = 200 /\ client.malformed
    THEN << None, None, << "1", ".", "0", ".", "0" >> >>
    ELSE LET s == IF server.status = 200
                  THEN << server.latitude, server.longitude,
                          IF server.version = None THEN << "1", ".", "0", ".", "0" >>
                          ELSE server.version[1] >>
                  ELSE << None, None, << "1", ".", "0", ".", "0" >> >>
         IN  IF client.status = 200
             THEN << IF s[1] = None THEN client.latitude ELSE s[1],
                     IF s[2] = None THEN client.longitude ELSE s[2],
                     IF client.version = None THEN s[3]
                     ELSE client.version[1] >>
             ELSE s

\* faulty variant: the coordinate that was found is kept
CoordinatesPartial(lat, lon) ==
    << IF lat = None THEN 0 ELSE lat[1], IF lon = None THEN 0 ELSE lon[1] >>

\* lat, lon = 0.0, 0.0 if lat is None or lon is None
Coordinates(lat, lon) ==
    IF lat = None \/ lon = None THEN << 0, 0 >> ELSE << lat[1], lon[1] >>

\* faulty variant: the mappings of the batches before are not looked at
DeviceHomeDefault(d, state_mapping, country_mapping, now) ==
    LET c == UpsertCountry(d, DEFAULT_COUNTRY, now)
        u == UpsertState(c.db, DEFAULT_STATE, c.id, now)
    IN  [db |-> u.db, state_id |-> u.id, country_id |-> c.id,
         raised |-> u.raised]

\* faulty variant: the country of a device is DEFAULT_COUNTRY also when a
\* state was saved
DeviceHomeDefaultCountry(d, state_mapping, country_mapping, now) ==
    IF state_mapping # << >>
    THEN LET c == UpsertCountry(d, DEFAULT_COUNTRY, now)
         IN  [db |-> c.db, state_id |-> state_mapping[1].value.db_id,
              country_id |-> c.id, raised |-> FALSE]
    ELSE IF country_mapping # << >>
    THEN LET country_id == country_mapping[1].value.db_id
             u == UpsertState(d, DEFAULT_STATE, country_id, now)
         IN  [db |-> u.db, state_id |-> u.id, country_id |-> country_id,
              raised |-> u.raised]
    ELSE LET c == UpsertCountry(d, DEFAULT_COUNTRY, now)
             u == UpsertState(c.db, DEFAULT_STATE, c.id, now)
         IN  [db |-> u.db, state_id |-> u.id, country_id |-> c.id,
              raised |-> u.raised]

\* state_id and country_id of a device row: the first saved state, else the
\* first saved country with DEFAULT_STATE, else DEFAULT_COUNTRY with
\* DEFAULT_STATE
DeviceHome(d, state_mapping, country_mapping, now) ==
    IF state_mapping # << >>
    THEN [db |-> d, state_id |-> state_mapping[1].value.db_id,
          country_id |-> state_mapping[1].value.country_id,
          raised |-> FALSE]
    ELSE IF country_mapping # << >>
    THEN LET country_id == country_mapping[1].value.db_id
             u == UpsertState(d, DEFAULT_STATE, country_id, now)
         IN  [db |-> u.db, state_id |-> u.id, country_id |-> country_id,
              raised |-> u.raised]
    ELSE LET c == UpsertCountry(d, DEFAULT_COUNTRY, now)
             u == UpsertState(c.db, DEFAULT_STATE, c.id, now)
         IN  [db |-> u.db, state_id |-> u.id, country_id |-> c.id,
              raised |-> u.raised]

\* serial number of a device-like asset
AssetSerial(asset) == << "A", "S", "S", "E", "T", "_" >> \o asset.id[1]

\* serial number of a device: its label, a generated one when it has none
DeviceSerial(device) ==
    IF device.label # << >> THEN device.label ELSE << "D", "E", "V", "_" >> \o device.id[1]

RECURSIVE AssetDevicesLoop(_, _, _, _, _, _, _, _)
\* the loop of save_asset_devices_to_db
AssetDevicesLoop(ds, state_mapping, country_mapping, answers, i, fail, now, acc) ==
    IF i > Len(ds) THEN acc
    ELSE IF i = fail THEN [acc EXCEPT !.raised = TRUE, !.faulted = TRUE]
    ELSE LET device == ds[i]
             found == get_asset_attributes(answers[i])
             at == Coordinates(found[1], found[2])
             h == DeviceHome(acc.db, state_mapping, country_mapping, now)
             u == UpsertDevice(h.db,
                      [device_name |-> device.name,
                       serial_number |-> AssetSerial(device),
                       firmware_version |-> << "1", ".", "0", ".", "0" >>,
                       location_lat |-> at[1], location_lon |-> at[2],
                       state_id |-> h.state_id, country_id |-> h.country_id],
                      now)
         IN  IF h.raised THEN [acc EXCEPT !.db = h.db, !.raised = TRUE]
             ELSE IF u.raised THEN [acc EXCEPT !.db = u.db, !.raised = TRUE]
             ELSE AssetDevicesLoop(ds, state_mapping, country_mapping,
                      answers, i + 1, fail, now, [acc EXCEPT !.db = u.db])

save_asset_devices_to_db(d, ds, state_mapping, country_mapping, answers, fail, now) ==
    Batch(d, AssetDevicesLoop(ds, state_mapping, country_mapping, answers,
                 1, fail, now, BatchBegin(d)),
          fail = Len(ds) + 1)

RECURSIVE TbDevicesLoop(_, _, _, _, _, _, _, _)
\* the loop of save_thingsboard_devices_to_db
TbDevicesLoop(ds, state_mapping, country_mapping, answers, i, fail, now, acc) ==
    IF i > Len(ds) THEN acc
    ELSE IF i = fail THEN [acc EXCEPT !.raised = TRUE, !.faulted = TRUE]
    ELSE LET device == ds[i]
             found == get_device_attributes(answers[i][1], answers[i][2])
             at == Coordinates(found[1], found[2])
             h == DeviceHome(acc.db, state_mapping, country_mapping, now)
             u == UpsertDevice(h.db,
                      [device_name |-> device.name,
                       serial_number |-> DeviceSerial(device),
                       firmware_version |-> found[3],
                       location_lat |-> at[1], location_lon |-> at[2],
                       state_id |-> h.state_id, country_id |-> h.country_id],
                      now)
         IN  IF h.raised THEN [acc EXCEPT !.db = h.db, !.raised = TRUE]
             ELSE IF u.raised THEN [acc EXCEPT !.db = u.db, !.raised = TRUE]
             ELSE TbDevicesLoop(ds, state_mapping, country_mapping, answers,
                      i + 1, fail, now, [acc EXCEPT !.db = u.db])

save_thingsboard_devices_to_db(d, ds, state_mapping, country_mapping, answers, fail, now) ==
    Batch(d, TbDevicesLoop(ds, state_mapping, country_mapping, answers,
                 1, fail, now, BatchBegin(d)),
          fail = Len(ds) + 1)

(* -------------- src/extract_and_save_assets.py: main() ----------------- *)

Event(op, of) == [op |-> op, of |-> of]

EtlLogged(e, op, of) == [e EXCEPT !.log = Append(@, Event(op, of))]

Faulted(e) == [e EXCEPT !.faults = @ + 1]

\* the statements of a batch that may raise: none (0), one of the n, or the
\* commit (n + 1)
FailAt(e, n) == IF e.faults < MaxFaults THEN 0..(n + 1) ELSE {0}

\* the pass is over: return from main(), or sys.exit(1)
EtlEnd(e, outcome) == [e EXCEPT !.pc = "done", !.outcome = outcome]

\* faulty variant: any answer that begins with y is taken as consent
ConfirmedPrefix(response) ==
    response # << >> /\ str_lower(response)[1] = "y"

\* response.lower() == 'y'
Confirmed(response) == str_lower(response) = << "y" >>

\* what the pass before read, when it saved all of it: every batch it
\* opened was committed
Previous(e) ==
    IF /\ e.outcome = "Done"
       /\ \A i \in 1..Len(e.log) : e.log[i].op # "rollback"
    THEN [saved |-> TRUE, cfg |-> e.cfg, assets |-> e.assets,
          tb_devices |-> e.tb_devices, relations |-> e.relations]
    ELSE EtlIdle.prev

\* a pass begins: load_config() reads the file or exits; the tenant holds
\* one of the catalogs
EtlStart ==
    /\ etl.pc \in {"idle", "done"}
    /\ etl.pass < MaxPasses
    /\ LET e0 == [EtlIdle EXCEPT !.pass = etl.pass + 1, !.db0 = db,
                                 !.faults = etl.faults,
                                 !.prev = Previous(etl)]
       IN  \/ \E cfg \in EtlConfigs, cat \in Catalogs :
                  /\ etl' = [e0 EXCEPT !.pc = "fetchAssets", !.cfg = cfg]
                  /\ tb' = cat
           \/ /\ etl' = EtlEnd(e0, "ConfigMissing")
              /\ tb' = tb
    /\ UNCHANGED << db, returned, provvars >>

\* fetch_thingsboard_assets(), and main() returning when nothing was listed
FetchAssets ==
    /\ etl.pc = "fetchAssets"
    /\ \E who \in WhoamiAnswers, resp \in ListAnswers :
           LET e1 == EtlLogged(etl, "whoami", "")
               valid == etl_validate_token(who)
               e2 == IF valid THEN EtlLogged(e1, "list", "assets") ELSE e1
               listed == IF valid THEN Fetched(resp, tb.assets) ELSE << >>
               e3 == [e2 EXCEPT !.asked.who = who,
                                !.asked.list = IF valid THEN resp ELSE @]
           IN  etl' = IF listed = << >> THEN EtlEnd(e3, "NoAssets")
                      ELSE [e3 EXCEPT !.pc = "fetchDevices",
                                      !.assets = listed]
    /\ UNCHANGED << tb, db, returned, provvars >>

\* fetch_thingsboard_devices()
FetchDevices ==
    /\ etl.pc = "fetchDevices"
    /\ \E resp \in ListAnswers :
           etl' = [EtlLogged(etl, "list", "devices") EXCEPT
                      !.pc = "categorize",
                      !.tb_devices = Fetched(resp, tb.devices)]
    /\ UNCHANGED << tb, db, returned, provvars >>

\* countries, states, asset_devices = categorize_assets(assets, config)
Categorize ==
    /\ etl.pc = "categorize"
    /\ LET lists == categorize_assets(etl.assets, etl.cfg)
       IN  etl' = [etl EXCEPT !.pc = "relations",
                              !.countries = lists.countries,
                              !.states = lists.states,
                              !.asset_devices = lists.devices]
    /\ UNCHANGED << tb, db, returned, provvars >>

\* the pass has read what the pass before it read and saved
Rerun(e, rels) ==
    /\ e.prev.saved
    /\ e.prev.cfg = e.cfg
    /\ e.prev.assets = e.assets
    /\ e.prev.tb_devices = e.tb_devices
    /\ e.prev.relations = rels

\* get_asset_relations() and find_state_country_mapping()
FetchRelations ==
    /\ etl.pc = "relations"
    /\ \E resp \in ListAnswers :
           LET rels == get_asset_relations(resp, tb.relations)
           IN  etl' = [EtlLogged(etl, "list", "relations") EXCEPT
                          !.pc = "confirm",
                          !.rerun = Rerun(etl, rels),
                          !.prev = EtlIdle.prev,
                          !.relations = rels,
                          !.state_country_relations =
                              find_state_country_mapping(etl.states,
                                  etl.countries, rels)]
    /\ UNCHANGED << tb, db, returned, provvars >>

\* the confirmation prompt
Confirm ==
    /\ etl.pc = "confirm"
    /\ \E response \in Responses :
           LET e1 == [EtlLogged(etl, "prompt", "") EXCEPT
                         !.response = response]
           IN  etl' = IF Confirmed(response)
                      THEN [e1 EXCEPT !.pc = "saveCountries"]
                      ELSE EtlEnd(e1, "Cancelled")
    /\ UNCHANGED << tb, db, returned, provvars >>

NoFetch == [of |-> "", answers |-> << >>]

\* the attribute answers of the last device of a batch that committed
LastFetch(of, out, answers) ==
    IF out.raised THEN NoFetch ELSE [of |-> of, answers |-> answers]

\* what a country batch handed back, for every key of its mapping
Returns(e, mapping, raised) ==
    { [pass |-> e.pass, tb_id |-> mapping[i].key,
       country_name |-> mapping[i].value.name,
       country_id |-> mapping[i].value.db_id,
       committed |-> ~raised] : i \in 1..Len(mapping) }

\* end of a batch in the log
Ended(e, of, out) ==
    LET e1 == EtlLogged(e, IF out.raised THEN "rollback" ELSE "commit", of)
    IN  IF out.faulted THEN Faulted(e1) ELSE e1

\* country_mapping = save_countries_to_db(countries)
SaveCountries ==
    /\ etl.pc = "saveCountries"
    /\ IF etl.countries = << >>
       THEN /\ etl' = [etl EXCEPT !.pc = "saveStates"]
            /\ UNCHANGED << db, returned >>
       ELSE \/ /\ etl.faults < MaxFaults
               /\ etl' = EtlEnd(Faulted(EtlLogged(etl, "connect failed", "countries")),
                                "DbConnectFailed")
               /\ UNCHANGED << db, returned >>
            \/ \E fail \in FailAt(etl, Len(etl.countries)) :
                   LET out == save_countries_to_db(db, etl.countries, fail,
                                  etl.pass)
                       e1 == EtlLogged(etl, "connect", "countries")
                   IN  /\ db' = out.db
                       /\ returned' = returned \cup
                              Returns(etl, out.mapping, out.raised)
                       /\ etl' = [Ended(e1, "countries", out) EXCEPT
                                     !.pc = "saveStates",
                                     !.country_mapping = out.mapping]
    /\ UNCHANGED << tb, provvars >>

\* state_mapping = save_states_to_db(states, country_mapping,
\*                                   state_country_relations)
SaveStates ==
    /\ etl.pc = "saveStates"
    /\ IF etl.states = << >>
       THEN /\ etl' = [etl EXCEPT !.pc = "saveAssetDevices"]
            /\ db' = db
       ELSE \/ /\ etl.faults < MaxFaults
               /\ etl' = EtlEnd(Faulted(EtlLogged(etl, "connect failed", "states")),
                                "DbConnectFailed")
               /\ db' = db
            \/ \E fail \in FailAt(etl, Len(etl.states)) :
                   LET out == save_states_to_db(db, etl.states,
                                  etl.country_mapping,
                                  etl.state_country_relations, fail,
                                  etl.pass)
                       e1 == EtlLogged(etl, "connect", "states")
                   IN  /\ db' = out.db
                       /\ etl' = [Ended(e1, "states", out) EXCEPT
                                     !.pc = "saveAssetDevices",
                                     !.state_mapping = out.mapping]
    /\ UNCHANGED << tb, returned, provvars >>

\* save_asset_devices_to_db(asset_devices, state_mapping, country_mapping)
SaveAssetDevices ==
    /\ etl.pc = "saveAssetDevices"
    /\ IF etl.asset_devices = << >>
       THEN /\ etl' = [etl EXCEPT !.pc = "saveTbDevices"]
            /\ db' = db
       ELSE \/ /\ etl.faults < MaxFaults
               /\ etl' = EtlEnd(Faulted(EtlLogged(etl, "connect failed",
                                          "asset devices")),
                                "DbConnectFailed")
               /\ db' = db
            \/ \E fail \in FailAt(etl, Len(etl.asset_devices)),
                  answers \in [1..Len(etl.asset_devices) ->
                                  AttributeAnswers] :
                   LET out == save_asset_devices_to_db(db, etl.asset_devices,
                                  etl.state_mapping, etl.country_mapping,
                                  answers, fail, etl.pass)
                       e1 == EtlLogged(etl, "connect", "asset devices")
                   IN  /\ db' = out.db
                       /\ etl' = [Ended(e1, "asset devices", out) EXCEPT
                                     !.pc = "saveTbDevices",
                                     !.fetched =
                                         LastFetch("asset devices", out,
                                             << answers[Len(
                                                 etl.asset_devices)] >>)]
    /\ UNCHANGED << tb, returned, provvars >>

\* save_thingsboard_devices_to_db(tb_devices, state_mapping,
\*                                country_mapping), the last step of main()
SaveTbDevices ==
    /\ etl.pc = "saveTbDevices"
    /\ IF etl.tb_devices = << >>
       THEN /\ etl' = EtlEnd([etl EXCEPT !.fetched = NoFetch], "Done")
            /\ db' = db
       ELSE \/ /\ etl.faults < MaxFaults
               /\ etl' = EtlEnd(Faulted(EtlLogged(etl, "connect failed", "devices")),
                                "DbConnectFailed")
               /\ db' = db
            \/ \E fail \in FailAt(etl, Len(etl.tb_devices)),
                  answers \in DeviceAnswers(Len(etl.tb_devices)) :
                   LET out == save_thingsboard_devices_to_db(db,
                                  etl.tb_devices, etl.state_mapping,
                                  etl.country_mapping, answers, fail,
                                  etl.pass)
                       e1 == EtlLogged(etl, "connect", "devices")
                   IN  /\ db' = out.db
                       /\ etl' = EtlEnd(
                              [Ended(e1, "devices", out) EXCEPT
                                  !.fetched =
                                      LastFetch("devices", out,
                                          answers[Len(etl.tb_devices)])],
                              "Done")
    /\ UNCHANGED << tb, returned, provvars >>

NextEtl ==
    \/ EtlStart
    \/ FetchAssets
    \/ FetchDevices
    \/ Categorize
    \/ FetchRelations
    \/ Confirm
    \/ SaveCountries
    \/ SaveStates
    \/ SaveAssetDevices
    \/ SaveTbDevices

\* the ETL alone: the tenant of the provisioning runs stays empty
InitEtl == Init /\ assets = {}

SpecEtl == InitEtl /\ [][NextEtl]_vars

(* ------ src/APIProvision.py, then src/extract_and_save_assets.py ------- *)

\* [profiles] country_profile_name, state_profile_name and
\* device_profile_name of the config.properties both scripts read
CountryProfileNames == { << "C", "o", "u", "n", "t", "r", "y" >>, << "N", "a", "t", "i", "o", "n" >>, << "R", "e", "g", "i", "o", "n" >>, << "s", "t", "a", "t", "e" >> }

StateProfileNames == { << "S", "t", "a", "t", "e" >>, << "R", "e", "g", "i", "o", "n" >>, << "Z", "o", "n", "e" >>, << "T", "e", "r", "r", "i", "t", "o", "r", "y" >> }

DeviceProfileNames == { << "S", "e", "n", "s", "o", "r" >>, << "Z", "o", "n", "e" >> }

ProfileConfigs ==
    [country_profile_name : CountryProfileNames,
     state_profile_name : StateProfileNames,
     device_profile_name : DeviceProfileNames]

\* [assets] state_name
StateNames == { << "L", "O", "N", "D", "O", "N" >>, << "N", "Y" >>, << "N", "a", "t", "i", "o", "n", " ", "P", "a", "r", "k" >>, << "K", "e", "n", "t" >> }

\* the asset the catalog holds after create_asset(STATE_NAME,
\* state_profile_id, STATE_PROFILE_NAME): "type" is the profile name as the
\* configuration spells it
CreatedState(state_name, cfg) ==
    [id |-> << << "0", "0", "0", "0", "a", "0", "0", "9" >>, "a" >>, name |-> state_name,
     type |-> cfg.state_profile_name]

\* a provisioning run that did not find the state and created it; the
\* catalog holds the country the run found and the state
AutoCreateState ==
    /\ etl.pc = "idle"
    /\ tb = NoCatalog
    /\ \E cfg \in ProfileConfigs, state_name \in StateNames :
           /\ tb' = [NoCatalog EXCEPT
                        !.assets = << AssetUK, CreatedState(state_name, cfg) >>]
           /\ etl' = [EtlIdle EXCEPT !.pass = 1, !.cfg = cfg,
                                     !.pc = "fetchAssets"]
    /\ UNCHANGED << db, returned, provvars >>

\* main() of the ETL with the same config.properties: the assets are listed
\* and categorize_assets(assets, config) sorts them
CategorizeListed ==
    /\ etl.pc = "fetchAssets"
    /\ LET cats == categorize_assets(tb.assets, etl.cfg)
       IN  etl' = [etl EXCEPT !.pc = "categorized",
                              !.assets = tb.assets,
                              !.countries = cats.countries,
                              !.states = cats.states,
                              !.asset_devices = cats.devices]
    /\ UNCHANGED << tb, db, returned, provvars >>

NextHandover ==
    \/ AutoCreateState
    \/ CategorizeListed

SpecHandover == InitEtl /\ [][NextHandover]_vars

(* ---------------- src/thingsboard_device_service.py ------------------- *)

\* what a method hands back: a dict with "success" and, when present,
\* "error" (kind of text), "status_code", "data", "message"; or no dict,
\* the exception leaving the method
Value(success, error, status_code, data, message) ==
    [escaped |-> FALSE, success |-> success, error |-> error,
     status_code |-> status_code, data |-> data, message |-> message]

Escaped ==
    [escaped |-> TRUE, success |-> FALSE, error |-> "", status_code |-> None,
     data |-> FALSE, message |-> FALSE]

\* what a request of the session may come to: a RequestException before an
\* answer (raised), or an answer with a status and a body that is JSON or
\* is not
ServiceStatuses == {200, 201, 401, 404, 500}

ServiceAnswers ==
    { [raised |-> TRUE, status |-> 0, json |-> FALSE] } \cup
    [raised : {FALSE}, status : ServiceStatuses, json : BOOLEAN]

\* response.raise_for_status() raises HTTPError
HttpError(answer) == answer.status >= 400 /\ answer.status < 600

\* the answers the catalog gives to a request about device_id: 404 is for a
\* device it does not hold, 200 for one it holds
AnswersAbout(devs, device_id) ==
    { a \in ServiceAnswers :
        \/ a.raised
        \/ a.status \in {401, 500}
        \/ a.status = 200 /\ \E d \in devs : d.id = device_id
        \/ a.status = 404 /\ ~\E d \in devs : d.id = device_id }

\* faulty variant: the HTTPError is not caught
provision_device_unguarded(answer, json_error_is_request_error) ==
    IF answer.raised
    THEN Value(FALSE, "Request error occurred", None, FALSE, FALSE)
    ELSE IF HttpError(answer) THEN Escaped
    ELSE IF ~answer.json
    THEN Value(FALSE, IF json_error_is_request_error
                      THEN "Request error occurred" ELSE "Unexpected error",
               None, FALSE, FALSE)
    ELSE Value(TRUE, "", None, TRUE, TRUE)

\* provision_device: the try block and its three except clauses; a body
\* that is not JSON makes response.json() raise, which is a
\* RequestException or only an Exception, as the requests library has it
provision_device(answer, json_error_is_request_error) ==
    IF answer.raised
    THEN Value(FALSE, "Request error occurred", None, FALSE, FALSE)
    ELSE IF HttpError(answer)
    THEN Value(FALSE, "HTTP error occurred", Some(answer.status), FALSE, FALSE)
    ELSE IF ~answer.json
    THEN Value(FALSE, IF json_error_is_request_error
                      THEN "Request error occurred" ELSE "Unexpected error",
               None, FALSE, FALSE)
    ELSE Value(TRUE, "", None, TRUE, TRUE)

\* get_device: one except clause, for RequestException
get_device(answer, json_error_is_request_error) ==
    IF answer.raised \/ HttpError(answer)
    THEN Value(FALSE, "str(e)", None, FALSE, FALSE)
    ELSE IF ~answer.json
    THEN IF json_error_is_request_error
         THEN Value(FALSE, "str(e)", None, FALSE, FALSE)
         ELSE Escaped
    ELSE Value(TRUE, "", None, TRUE, FALSE)

\* delete_device: the body of the answer is not read
delete_device(answer, json_error_is_request_error) ==
    IF answer.raised \/ HttpError(answer)
    THEN Value(FALSE, "Failed to delete device", None, FALSE, FALSE)
    ELSE Value(TRUE, "", None, FALSE, TRUE)

\* list_devices: as get_device
list_devices(answer, json_error_is_request_error) ==
    IF answer.raised \/ HttpError(answer)
    THEN Value(FALSE, "str(e)", None, FALSE, FALSE)
    ELSE IF ~answer.json
    THEN IF json_error_is_request_error
         THEN Value(FALSE, "str(e)", None, FALSE, FALSE)
         ELSE Escaped
    ELSE Value(TRUE, "", None, TRUE, FALSE)

\* the caller keeps what the method handed back
Handed(op, answer, result) ==
    [svc EXCEPT !.results = Append(@, [op |-> op, answer |-> answer,
                                       result |-> result])]

othervars ==
    << assets, attrs, relations, telemetry, run, hist, assets0, probeMissed,
       tb, db, etl, returned >>

\* ThingsBoardDeviceService(...): the session; response.json() of the
\* installed requests raises a RequestException or a plain ValueError
NewService ==
    /\ ~svc.built
    /\ \E b \in BOOLEAN :
           svc' = [NoService EXCEPT !.built = TRUE,
                                    !.json_error_is_request_error = b]
    /\ UNCHANGED << devices, nextId, othervars >>

\* service.provision_device(): an answer without error status means the
\* catalog saved the device
ProvisionDevice ==
    /\ svc.built
    /\ Len(svc.results) < MaxCalls
    /\ \E answer \in { a \in ServiceAnswers : a.status # 404 } :
           /\ svc' = Handed("provision_device", answer,
                          provision_device(answer,
                              svc.json_error_is_request_error))
           /\ IF ~answer.raised /\ ~HttpError(answer)
              THEN /\ devices' = devices \cup
                          { [id |-> nextId, name |-> HostName, label |-> ""] }
                   /\ nextId' = nextId + 1
              ELSE UNCHANGED << devices, nextId >>
    /\ UNCHANGED othervars

\* service.get_device(device_id)
GetDevice ==
    /\ svc.built
    /\ Len(svc.results) < MaxCalls
    /\ \E device_id \in { d.id : d \in devices } \cup {0} :
         \E answer \in AnswersAbout(devices, device_id) :
           svc' = Handed("get_device", answer,
                      get_device(answer, svc.json_error_is_request_error))
    /\ UNCHANGED << devices, nextId, othervars >>

\* service.delete_device(device_id)
DeleteDevice ==
    /\ svc.built
    /\ Len(svc.results) < MaxCalls
    /\ \E device_id \in { d.id : d \in devices } \cup {0} :
         \E answer \in AnswersAbout(devices, device_id) :
           /\ svc' = Handed("delete_device", answer,
                          delete_device(answer,
                              svc.json_error_is_request_error))
           /\ devices' = IF ~answer.raised /\ ~HttpError(answer)
                         THEN { d \in devices : d.id # device_id }
                         ELSE devices
    /\ UNCHANGED << nextId, othervars >>

\* service.list_devices()
ListDevices ==
    /\ svc.built
    /\ Len(svc.results) < MaxCalls
    /\ \E answer \in { a \in ServiceAnswers : a.status \notin {201, 404} } :
           svc' = Handed("list_devices", answer,
                      list_devices(answer, svc.json_error_is_request_error))
    /\ UNCHANGED << devices, nextId, othervars >>

NextService ==
    \/ NewService
    \/ ProvisionDevice
    \/ GetDevice
    \/ DeleteDevice
    \/ ListDevices

SpecService == InitEtl /\ [][NextService]_vars

(* ======================= properties of the runs ======================== *)

ApiRun(r) == r.script = "APIProvision"

\* the assets with a name, compared ignoring case
NamedLike(as, name) == { a \in as : Upper(a.name) = Upper(name) }

Halted(p) == run[p].pc = "halted"

AllHalted == \A p \in Procs : ~Running(p)

\* the calls of a run with an op in ops, in the order issued
CallsOf(r, ops) == SelectSeq(r.calls, LAMBDA c : c.op \in ops)

MutatingOps ==
    {"createAsset", "setAttributes", "createRelation", "createDevice", "telemetry"}

\* the calls of Step 2 to Step 6
ReconcileOps == MutatingOps \cup {"relationInfo", "getCredentials"}

\* number of stored relations from one entity to another
EdgeCount(from, to) ==
    Cardinality({ i \in 1..Len(relations) :
                    relations[i].from = from /\ relations[i].to = to })

\* the finished runs are n >= 2 completed runs of APIProvision.py with one
\* country name and one state name, and the state was absent at the start
SameConfigRuns ==
    /\ AllHalted
    /\ Len(hist) >= 2
    /\ \A i \in 1..Len(hist) :
         /\ hist[i].script = "APIProvision"
         /\ hist[i].outcome = "Done"
         /\ hist[i].country = hist[1].country
         /\ hist[i].state = hist[1].state
    /\ NamedLike(assets0, hist[1].state) = {}

OneStateOneRelation ==
    LET cs == NamedLike(assets, hist[1].country)
        ss == NamedLike(assets, hist[1].state)
    IN  /\ Cardinality(ss) = 1
        /\ \A c \in cs, st \in ss : EdgeCount(c.id, st.id) = 1

NoDuplicateAssetEdge ==
    \A i, j \in 1..Len(relations) :
        (/\ relations[i].toType = "ASSET"
         /\ relations[i].from = relations[j].from
         /\ relations[i].to = relations[j].to) => i = j

ParentsOf(e, toType) ==
    { relations[i].from :
        i \in { k \in 1..Len(relations) :
                  relations[k].to = e /\ relations[k].toType = toType } }

\* C3: every asset is contained in at most one asset and every device in at
\* most one asset.
C3_AtMostOneParent ==
    /\ \A a \in assets : Cardinality(ParentsOf(a.id, "ASSET")) <= 1
    /\ \A d \in devices : Cardinality(ParentsOf(d.id, "DEVICE")) <= 1

CallKey(c) == << c.op, c.name, c.x, c.y >>

Keys(cs) == [i \in 1..Len(cs) |-> CallKey(cs[i])]

\* the calls C4 expects of a run, with the entities the run used
ExpectedCalls(r) ==
    << << "createAsset", r.cfg.state, r.state_asset.id, 0 >>,
       << "setAttributes", "", r.state_asset.id, 0 >>,
       << "createRelation", "ASSET", r.country_asset.id, r.state_asset.id >>,
       << "createDevice", r.DEVICE_NAME, r.device.id, 0 >>,
       << "createRelation", "DEVICE", r.state_asset.id, r.device.id >>,
       << "getCredentials", "", r.device.id, 0 >>,
       << "telemetry", "", CredentialOf(r.device.id), 0 >> >>

\* C4: a completed run that did not find the state in the listing issued
\* create-asset, set-attributes, create-relation (country, state),
\* create-device, create-relation (state, device), get-credentials and the
\* telemetry POST, in this order, each once, and no other mutating call.
C4_CallOrder ==
    \A p \in Procs :
        (/\ ApiRun(run[p])
         /\ run[p].outcome = "Done"
         /\ ~run[p].state_found)
            => Keys(CallsOf(run[p], MutatingOps \cup {"getCredentials"}))
                 = ExpectedCalls(run[p])

C4_Witness ==
    \E p \in Procs :
        /\ ApiRun(run[p])
        /\ run[p].outcome = "Done"
        /\ ~run[p].state_found
        /\ Len(CallsOf(run[p], MutatingOps \cup {"getCredentials"})) = 7

\* C5: a run gets past token validation only when whoami answered 200; after
\* any other answer, or a request error, whoami is the only call the run
\* ever issued to the catalog.
C5_FailFastOnAuth ==
    \A p \in Procs :
        (ApiRun(run[p]) /\ Len(run[p].calls) >= 1) =>
            LET w == run[p].calls[1]
            IN  /\ w.op = "whoami"
                /\ (w.ok /\ w.status = 200)
                     => (run[p].outcome # "AuthError" /\ run[p].pc # "validate")
                /\ ~(w.ok /\ w.status = 200)
                     => /\ Len(run[p].calls) = 1
                        /\ Halted(p)
                        /\ run[p].outcome = "AuthError"

C5_Witness ==
    \E p \in Procs :
        /\ ApiRun(run[p])
        /\ run[p].outcome = "AuthError"
        /\ run[p].calls[1].status = 401

\* C6: no run issues a create-asset call for the configured country name, and
\* a run that ends as country-not-found issued no mutating call.
C6_NeverCreatesCountry ==
    \A p \in Procs :
        /\ \A i \in 1..Len(run[p].calls) :
             run[p].calls[i].op = "createAsset"
                => Upper(run[p].calls[i].name) # Upper(run[p].cfg.country)
        /\ run[p].outcome = "CountryNotFound"
             => CallsOf(run[p], MutatingOps) = << >>

\* every configured profile name is the name of a profile of its kind
ProfilesExist(cfg) ==
    /\ \E pr \in AssetProfiles : pr.name = cfg.country_profile_name
    /\ \E pr \in AssetProfiles : pr.name = cfg.state_profile_name
    /\ \E pr \in DeviceProfiles : pr.name = cfg.device_profile_name

\* the positions of a run before the result of the profile lookups is used
BeforeSearch == {"locate", "validate", "list0", "profC", "profS", "profD"}

\* C7: a run configured with a profile name that no profile of its kind has
\* exactly never gets past the profile lookups: it issues no mutating call, no
\* relation probe, no credential fetch and no asset listing besides the
\* debug listing, and it ends without finding a country or a state.
C7_ProfileMissEndsRun ==
    \A p \in Procs :
        (/\ ApiRun(run[p])
         /\ run[p].outcome # "ConfigMissing"
         /\ ~ProfilesExist(run[p].cfg)) =>
            /\ run[p].pc \in BeforeSearch \cup {"halted"}
            /\ CallsOf(run[p], ReconcileOps) = << >>
            /\ Len(CallsOf(run[p], {"listAssets"})) <= 1
            /\ run[p].country_asset = NoAsset
            /\ run[p].state_asset = NoAsset
            /\ run[p].outcome \in {"", "AuthError", "Crash", "ProfileNotFound"}

C7_Witness ==
    \E p \in Procs :
        /\ ApiRun(run[p])
        /\ run[p].outcome = "ProfileNotFound"
        /\ run[p].cfg.state_profile_name = "state"
        /\ run[p].country_profile_id # None

\* the run found the country and no state in its listing
StateAbsent(r) == ApiRun(r) /\ r.country_asset # NoAsset /\ ~r.state_found

\* the id of the asset profile with the configured state profile name
StateProfileId(cfg) ==
    (CHOOSE pr \in AssetProfiles : pr.name = cfg.state_profile_name).id

\* C8: a run that found no state issues one create-asset call, with the
\* state name and the id of the configured state profile; when it succeeds
\* the next call is the one attribute write, on the created asset with the
\* run's coordinates; when it fails the run ends with no further call.
C8_StateAutoCreate ==
    \A p \in Procs :
        StateAbsent(run[p]) =>
            LET r == run[p]
                cr == CallsOf(r, {"createAsset"})
                at == CallsOf(r, {"setAttributes"})
                rest == CallsOf(r, ReconcileOps)
            IN  /\ (r.pc = "createState") <=> (cr = << >>)
                /\ Len(cr) <= 1
                /\ Len(at) <= 1
                /\ cr # << >> =>
                     /\ rest[1] = cr[1]
                     /\ cr[1].name = r.cfg.state
                     /\ cr[1].prof = StateProfileId(r.cfg)
                     /\ ~cr[1].ok =>
                          /\ Len(rest) = 1
                          /\ Halted(p)
                          /\ r.outcome = "StateCreateFailed"
                     /\ cr[1].ok =>
                          /\ \E a \in assets :
                               /\ a.id = cr[1].x
                               /\ a.name = r.cfg.state
                          /\ (r.pc = "stateAttrs") <=> (at = << >>)
                          /\ at # << >> =>
                               /\ rest[2] = at[1]
                               /\ at[1].x = cr[1].x
                               /\ at[1].lat = r.LAT
                               /\ at[1].lon = r.LON

C8_Witness ==
    \E p \in Procs :
        /\ StateAbsent(run[p])
        /\ run[p].outcome = "StateCreateFailed"
        /\ CallsOf(run[p], {"createAsset"})[1].status = 403

\* the entity or relation a successful create call stored is in the catalog
StillPresent(c) ==
    CASE c.op = "createAsset" -> \E a \in assets : a.id = c.x
      [] c.op = "createDevice" -> \E d \in devices : d.id = c.x
      [] c.op = "createRelation" -> Linked(relations, c.x, c.y)
      [] c.op = "setAttributes" -> \E a \in attrs : a.id = c.x
      [] OTHER -> TRUE

Absorbed(c) ==
    \/ c.op \in {"listAssets", "allAssetProfiles", "allDeviceProfiles"}
    \/ c.op = "relationInfo" /\ c.status # 0

CreatedDevices ==
    { hist[i].device : i \in { k \in 1..Len(hist) : hist[k].device # 0 } }
    \cup { run[p].device.id : p \in { q \in Procs : run[q].device.id # 0 } }

\* the number of runs that got past create_device
CreateDeviceRuns ==
    Cardinality({ k \in 1..Len(hist) : hist[k].device # 0 })
    + Cardinality({ q \in Procs : Running(q) /\ run[q].device.id # 0 })

DeviceLinkCalls(r) ==
    SelectSeq(r.calls, LAMBDA c : c.op = "createRelation" /\ c.name = "DEVICE")

\* the stored relations that end in a device
DeviceEdges == { i \in 1..Len(relations) : relations[i].toType = "DEVICE" }

AssetLinkCalls(r) ==
    SelectSeq(r.calls, LAMBDA c : c.op = "createRelation" /\ c.name = "ASSET")

\* C13: a run issues the create-relation of Step 3 exactly when its relation
\* probe was answered with a status other than 200, as the call right after
\* the probe and for the probed pair; after an answer of 200 it never issues
\* it.  This includes a probe answered 500 for a relation that is stored.
C13_LinkUnlessProbe200 ==
    \A p \in Procs :
        ApiRun(run[p]) =>
            LET r == run[p]
                pr == CallsOf(r, {"relationInfo"})
                ln == AssetLinkCalls(r)
            IN  /\ Len(pr) <= 1
                /\ Len(ln) <= 1
                /\ ln # << >> => (pr # << >> /\ pr[1].status \notin {0, 200})
                /\ (pr # << >> /\ pr[1].status = 200)
                     => (ln = << >> /\ r.pc # "linkState")
                /\ (pr # << >> /\ pr[1].status \notin {0, 200})
                     => /\ (r.pc = "linkState") <=> (ln = << >>)
                        /\ ln # << >> =>
                             /\ ln[1].x = pr[1].x
                             /\ ln[1].y = pr[1].y
                             /\ \E i \in 1..(Len(r.calls) - 1) :
                                  /\ r.calls[i] = pr[1]
                                  /\ r.calls[i + 1] = ln[1]

C13_Witness ==
    \E p \in Procs :
        /\ ApiRun(run[p])
        /\ run[p].state_found
        /\ run[p].probe_status = 500
        /\ AssetLinkCalls(run[p]) # << >>
        /\ AssetLinkCalls(run[p])[1].ok
        /\ EdgeCount(run[p].country_asset.id, run[p].state_asset.id) = 2

\* the run has read its configuration and is past the location lookup
Located(r) ==
    ApiRun(r) /\ r.outcome # "ConfigMissing" /\ r.pc \notin {"idle", "locate"}

\* the answer of the location service lacks a coordinate
LacksCoordinate(a) == a.raised \/ a.latitude = None \/ a.longitude = None

\* C14: past the location lookup LAT and LON are numbers: either the pair
\* the lookup returned or the configured pair, never one of each; they are
\* the configured pair whenever the lookup raised or its answer lacks
\* latitude or longitude; and the run goes on to token validation.
C14_CoordinatesResolved ==
    \A p \in Procs :
        Located(run[p]) =>
            LET r == run[p]
                a == r.location_data
            IN  /\ r.LAT \in Int
                /\ r.LON \in Int
                /\ \/ << r.LAT, r.LON >> = << ConfigLat, ConfigLon >>
                   \/ /\ r.detected[1] # None
                      /\ r.detected[2] # None
                      /\ << r.LAT, r.LON >> = << r.detected[1][1], r.detected[2][1] >>
                /\ r.pc = "validate" =>
                     /\ LacksCoordinate(a)
                          => << r.LAT, r.LON >> = << ConfigLat, ConfigLon >>
                     /\ ~LacksCoordinate(a)
                          => << r.LAT, r.LON >> \in
                               { << ConfigLat, ConfigLon >>,
                                 << a.latitude[1], a.longitude[1] >> }
                /\ Halted(p) => r.calls # << >>

C14_Witness ==
    \E p \in Procs :
        /\ Located(run[p])
        /\ run[p].pc = "validate"
        /\ run[p].location_data.latitude = Some(51)
        /\ run[p].location_data.longitude = None
        /\ run[p].LAT = ConfigLat
        /\ run[p].LON = ConfigLon

\* C15: the names a run works with are the configured ones whatever the
\* location lookup detected: the country and the state it found match the
\* configured names, every create-asset call carries the configured state
\* name, and the telemetry it sent carries both configured names.
C15_NamesFromConfig ==
    \A p \in Procs :
        Located(run[p]) =>
            LET r == run[p]
            IN  /\ r.COUNTRY_NAME = r.cfg.country
                /\ r.STATE_NAME = r.cfg.state
                /\ r.country_asset # NoAsset
                     => Upper(r.country_asset.name) = Upper(r.cfg.country)
                /\ r.state_asset # NoAsset
                     => Upper(r.state_asset.name) = Upper(r.cfg.state)
                /\ \A i \in 1..Len(r.calls) :
                     r.calls[i].op = "createAsset" => r.calls[i].name = r.cfg.state
                /\ r.outcome = "Done" =>
                     /\ \E i \in 1..Len(telemetry) :
                          telemetry[i].token = CredentialOf(r.device.id)
                     /\ \A i \in 1..Len(telemetry) :
                          telemetry[i].token = CredentialOf(r.device.id)
                            => /\ telemetry[i].country = r.cfg.country
                               /\ telemetry[i].state = r.cfg.state

C15_Witness ==
    \E p \in Procs :
        /\ Located(run[p])
        /\ run[p].outcome = "Done"
        /\ ~run[p].state_found
        /\ run[p].detected[3] = Some("FRANCE")
        /\ run[p].detected[4] = Some("PARIS")
        /\ run[p].cfg.country = "UK"

\* C16: the telemetry POST is the only request of a run without the tenant
\* bearer header; it is addressed with the credential of the device the run
\* created, and the call before it is the successful credential fetch for
\* that device.  Every stored sample came in under the credential of a
\* device of the catalog.
C16_TelemetryByDeviceCredential ==
    /\ \A p \in Procs :
         ApiRun(run[p]) =>
            LET r == run[p]
            IN  \A i \in 1..Len(r.calls) :
                    /\ r.calls[i].op # "telemetry" => r.calls[i].auth = "bearer"
                    /\ r.calls[i].op = "telemetry" =>
                         /\ r.calls[i].auth = "deviceToken"
                         /\ r.calls[i].x = CredentialOf(r.device.id)
                         /\ i > 1
                         /\ r.calls[i - 1].op = "getCredentials"
                         /\ r.calls[i - 1].ok
                         /\ r.calls[i - 1].x = r.device.id
                         /\ \E j \in 1..(i - 1) :
                              /\ r.calls[j].op = "createDevice"
                              /\ r.calls[j].ok
                              /\ r.calls[j].x = r.device.id
    /\ \A i \in 1..Len(telemetry) :
         \E d \in devices : telemetry[i].token = CredentialOf(d.id)

C16_Witness ==
    \E p \in Procs :
        LET cs == run[p].calls
        IN  /\ ApiRun(run[p])
            /\ run[p].outcome = "Done"
            /\ cs[Len(cs)].op = "telemetry"
            /\ cs[Len(cs)].ok
            /\ cs[Len(cs)].auth = "deviceToken"
            /\ telemetry # << >>

\* a profile lookup of the run was answered and no profile of its kind has
\* exactly the name asked for
Unresolved(r) ==
    \E i \in 1..Len(r.calls) :
        LET c == r.calls[i]
        IN  /\ c.ok
            /\ \/ /\ c.op = "assetProfiles"
                  /\ \A pr \in AssetProfiles : pr.name # c.name
               \/ /\ c.op = "deviceProfiles"
                  /\ \A pr \in DeviceProfiles : pr.name # c.name

\* the run took the listing of Step 1 and no asset in it has the country name
CountryMissing(r) ==
    /\ Len(CallsOf(r, {"listAssets"})) = 2
    /\ NamedLike(r.all_assets, r.cfg.country) = {}

\* C17: a run has an exit status exactly when it has ended, and the status
\* is 0 only after the telemetry was sent.  A run without a configuration
\* file ends before any call; a run whose whoami was not answered 200 ends
\* with that call; a run with an unresolved profile ends within the profile
\* lookups (the two profile listings of the guidance are its last calls); a
\* run whose listing lacks the country ends with the listing.  Each of them
\* ends with status 1 and none of them issues a mutating call.
C17_AbortExitsNonZero ==
    \A p \in Procs :
        (ApiRun(run[p]) /\ run[p].pc # "idle") =>
            LET r == run[p]
                n == Len(r.calls)
            IN  /\ Halted(p) <=> (r.exit_status # None)
                /\ (r.exit_status = Some(0)) <=> (r.outcome = "Done")
                /\ r.outcome = "ConfigMissing"
                     => (r.exit_status = Some(1) /\ r.calls = << >>)
                /\ (n >= 1 /\ ~(r.calls[1].ok /\ r.calls[1].status = 200))
                     => /\ Halted(p)
                        /\ r.outcome = "AuthError"
                        /\ r.exit_status = Some(1)
                        /\ n = 1
                /\ Unresolved(r)
                     => /\ r.pc \in {"profS", "profD", "halted"}
                        /\ Halted(p)
                             => /\ r.outcome \in {"ProfileNotFound", "Crash"}
                                /\ r.exit_status = Some(1)
                        /\ (r.pc = "halted" /\ r.outcome = "ProfileNotFound")
                             <=> (CallsOf(r, {"deviceProfiles"}) # << >>
                                  /\ CallsOf(r, {"deviceProfiles"})[1].ok)
                        /\ CallsOf(r, ReconcileOps) = << >>
                        /\ Len(CallsOf(r, {"listAssets"})) <= 1
                /\ CountryMissing(r)
                     => /\ Halted(p)
                        /\ r.outcome = "CountryNotFound"
                        /\ r.exit_status = Some(1)
                        /\ r.calls[n].op = "listAssets"
                        /\ CallsOf(r, ReconcileOps) = << >>

C17_Witness ==
    /\ Len(hist) = 2
    /\ hist[1].outcome = "ConfigMissing"
    /\ \E p \in Procs :
         /\ ApiRun(run[p])
         /\ Halted(p)
         /\ CountryMissing(run[p])
         /\ run[p].cfg.country = "DE"
         /\ run[p].exit_status = Some(1)

\* the successful create-asset calls of a run
CreatedAssets(r) == SelectSeq(r.calls, LAMBDA c : c.op = "createAsset" /\ c.ok)

\* the run is past the listing of Step 1 and found the country
Searched(r) == ApiRun(r) /\ r.country_asset # NoAsset

\* C12: the state-existence check of a run reads the listing the run took
\* and nothing else: the run goes on to create-asset exactly when that
\* listing has no asset with the state name, whatever the catalog holds by
\* then; the catalog keeps every state created, one entity per call, so
\* that two runs which both listed before either created both create.
C12_CheckThenCreateRace ==
    /\ \A p \in Procs :
         Searched(run[p]) =>
            LET r == run[p]
            IN  /\ r.state_found <=> (NamedLike(r.all_assets, r.cfg.state) # {})
                /\ ~r.state_found
                     => (r.pc = "createState")
                            <=> (CallsOf(r, {"createAsset"}) = << >>)
                /\ r.state_found => CallsOf(r, {"createAsset"}) = << >>
                /\ \A i \in 1..Len(CreatedAssets(r)) :
                     \E a \in assets :
                         /\ a.id = CreatedAssets(r)[i].x
                         /\ a.name = r.cfg.state
                         /\ a \notin r.all_assets
    /\ \A p, q \in Procs :
         (/\ p # q
          /\ ApiRun(run[p])
          /\ ApiRun(run[q])
          /\ CreatedAssets(run[p]) # << >>
          /\ CreatedAssets(run[q]) # << >>)
            => CreatedAssets(run[p])[1].x # CreatedAssets(run[q])[1].x

C12_Witness ==
    /\ NamedLike(assets0, run[1].cfg.state) = {}
    /\ run[1].cfg = run[2].cfg
    /\ Cardinality(NamedLike(assets, run[1].cfg.state)) = 2
    /\ \A p \in Procs :
         /\ ApiRun(run[p])
         /\ CreatedAssets(run[p]) # << >>
         /\ CallsOf(run[p], {"relationInfo"}) # << >>
         /\ CallsOf(run[p], {"relationInfo"})[1].status = 404
         /\ AssetLinkCalls(run[p]) # << >>
         /\ AssetLinkCalls(run[p])[1].ok
         /\ run[p].outcome = "Done"
(* ======================= properties of the ETL ========================= *)

\* the pass has classified a non-empty listing
Categorized == etl.assets # << >> /\ etl.pc \notin {"fetchDevices", "categorize"}

InList(a, list) == \E i \in 1..Len(list) : list[i] = a

\* rule (a): the type is, letter case apart, a configured profile name
ByProfile(a, cfg) ==
    IF str_lower(a.type) = str_lower(cfg.country_profile_name) THEN "countries"
    ELSE IF str_lower(a.type) = str_lower(cfg.state_profile_name) THEN "states"
    ELSE IF str_lower(a.type) = str_lower(cfg.device_profile_name) THEN "devices"
    ELSE "none"

\* rule (b): the type contains a country or a state keyword
ByTypeKeyword(a) ==
    IF AnyIn(country_types, str_lower(a.type)) THEN "countries"
    ELSE IF AnyIn(state_types, str_lower(a.type)) THEN "states"
    ELSE "none"

\* rule (c): the name is at most three characters long or holds a keyword
ByName(a) ==
    IF Len(a.name) <= 3 \/ AnyIn(country_name_keywords, str_upper(a.name))
    THEN "countries"
    ELSE IF AnyIn(state_name_keywords, str_upper(a.name)) THEN "states"
    ELSE "none"

\* the first rule that matches decides; no match is "other", the devices
FirstMatch(a, cfg) ==
    IF ByProfile(a, cfg) # "none" THEN ByProfile(a, cfg)
    ELSE IF ByTypeKeyword(a) # "none" THEN ByTypeKeyword(a)
    ELSE IF ByName(a) # "none" THEN ByName(a)
    ELSE "devices"

\* the lists of the pass that hold the asset
ListsOf(a) ==
    { l \in {"countries", "states", "devices"} :
        InList(a, CASE l = "countries" -> etl.countries
                    [] l = "states" -> etl.states
                    [] OTHER -> etl.asset_devices) }

\* C18: categorize_assets puts every listed asset in exactly one of
\* countries, states and other (the device-like assets), the list chosen by
\* the first rule that matches among (a) type equal to a configured profile
\* name, (b) keyword in the type, (c) keyword in or length of the name, and
\* other when none matches; the listing UK/Country, LONDON/State,
\* sensor-1/Widget under the profile names country and state gives
\* countries = [UK], states = [LONDON], other = [sensor-1].
C18_CategorizePartition ==
    Categorized =>
        /\ \A i \in 1..Len(etl.assets) :
               ListsOf(etl.assets[i]) = { FirstMatch(etl.assets[i], etl.cfg) }
        /\ Len(etl.countries) + Len(etl.states) + Len(etl.asset_devices)
               = Len(etl.assets)
        /\ ( /\ etl.assets = << AssetLondon, AssetUK, AssetSensor >>
             /\ str_lower(etl.cfg.country_profile_name) = << "c", "o", "u", "n", "t", "r", "y" >>
             /\ str_lower(etl.cfg.state_profile_name) = << "s", "t", "a", "t", "e" >> )
           => /\ etl.countries = << AssetUK >>
              /\ etl.states = << AssetLondon >>
              /\ etl.asset_devices = << AssetSensor >>

\* a listing in which rule (a), rule (b) against rule (c), and rule (c)
\* each decide an asset
C18_Witness ==
    /\ Categorized
    /\ \E i \in 1..Len(etl.assets) : ByProfile(etl.assets[i], etl.cfg) # "none"
    /\ \E i \in 1..Len(etl.assets) :
           /\ ByProfile(etl.assets[i], etl.cfg) = "none"
           /\ ByTypeKeyword(etl.assets[i]) = "states"
           /\ ByName(etl.assets[i]) = "countries"
           /\ InList(etl.assets[i], etl.states)
    /\ \E i \in 1..Len(etl.assets) :
           /\ ByProfile(etl.assets[i], etl.cfg) = "none"
           /\ ByTypeKeyword(etl.assets[i]) = "none"
           /\ ByName(etl.assets[i]) = "countries"
           /\ InList(etl.assets[i], etl.countries)

\* C19: a country name saved twice, by two assets of one batch or by two
\* passes, is one row of country_asset, and the batches that were committed
\* hand back the country_id of that row for it each time.
C19_CountryUpsertOnce ==
    /\ \A r1, r2 \in db.country_asset :
           r1.country_name = r2.country_name => r1 = r2
    /\ \A x, y \in returned :
           ( /\ x.committed
             /\ y.committed
             /\ x.country_name = y.country_name )
           => /\ x.country_id = y.country_id
              /\ \E row \in db.country_asset :
                     /\ row.country_name = x.country_name
                     /\ row.country_id = x.country_id

\* one name saved by two assets of a batch and again by a later pass
C19_Witness ==
    \E x, y, z \in returned :
        /\ x.committed /\ y.committed /\ z.committed
        /\ x.country_name = y.country_name
        /\ x.country_name = z.country_name
        /\ x.pass = y.pass /\ x.tb_id # y.tb_id
        /\ z.pass # x.pass

\* the pass has asked for the operator's consent
Prompted == \E i \in 1..Len(etl.log) : etl.log[i].op = "prompt"

\* the pass has called connect_to_db()
Connecting ==
    \E i \in 1..Len(etl.log) : etl.log[i].op \in {"connect", "connect failed"}

\* C20: a pass calls connect_to_db() and changes a table only after the
\* operator answered the prompt with y or Y; after any other answer the
\* pass is over and the database is as the pass found it.
C20_ConfirmationGate ==
    /\ (Connecting \/ db # etl.db0)
           => Prompted /\ str_lower(etl.response) = << "y" >>
    /\ (Prompted /\ str_lower(etl.response) # << "y" >>)
           => /\ etl.pc = "done"
              /\ etl.outcome = "Cancelled"
              /\ ~Connecting
              /\ db = etl.db0

\* a second pass refused with "yes" over a database an earlier pass filled
C20_Witness ==
    /\ etl.outcome = "Cancelled"
    /\ etl.response = << "y", "e", "s" >>
    /\ db = etl.db0
    /\ db.country_asset # {}

\* the rows of the three tables
Rows(d) == << d.country_asset, d.state_asset, d.devices >>

LastEvent(e) == e.log[Len(e.log)]

HasEvent(e, op, of) == \E i \in 1..Len(e.log) : e.log[i] = Event(op, of)

\* a step that ends a batch, by commit or by rollback
BatchEnds(op) ==
    /\ Len(etl'.log) > Len(etl.log)
    /\ LastEvent(etl').op = op

\* where main() stands after a batch
AfterBatch(of) ==
    CASE of = "countries" -> "saveStates"
      [] of = "states" -> "saveAssetDevices"
      [] of = "asset devices" -> "saveTbDevices"
      [] OTHER -> "done"

\* every item of the batch has its row
AllWritten(of, e, d) ==
    CASE of = "countries" ->
             \A i \in 1..Len(e.countries) :
                 \E row \in d.country_asset :
                     row.country_name = e.countries[i].name
      [] of = "states" ->
             \A i \in 1..Len(e.states) :
                 \E row \in d.state_asset :
                     row.state_name = e.states[i].name
      [] of = "asset devices" ->
             \A i \in 1..Len(e.asset_devices) :
                 \E row \in d.devices :
                     row.serial_number =
                         << "A", "S", "S", "E", "T", "_" >>
                             \o e.asset_devices[i].id[1]
      [] OTHER ->
             \A i \in 1..Len(e.tb_devices) :
                 \E row \in d.devices :
                     row.serial_number \in
                         { e.tb_devices[i].label,
                           << "D", "E", "V", "_" >> \o e.tb_devices[i].id[1] }

\* C21: a batch is all or nothing.  A batch that ends in its except branch
\* leaves every table as it was when the batch began, rows of earlier
\* batches included, and main() goes on to the next batch; a batch that
\* commits has written a row for every item it was given.
C21_BatchAllOrNothing ==
    [][ /\ BatchEnds("rollback") =>
               /\ Rows(db') = Rows(db)
               /\ etl'.pc = AfterBatch(LastEvent(etl').of)
               /\ etl'.pc = "done" => etl'.outcome = "Done"
        /\ BatchEnds("commit") =>
               /\ AllWritten(LastEvent(etl').of, etl, db')
               /\ etl'.pc = AfterBatch(LastEvent(etl').of) ]_vars

\* the state batch raised after a statement of it ran, the countries
\* committed before it are in place and the next batch has connected
C21_Witness ==
    /\ HasEvent(etl, "commit", "countries")
    /\ HasEvent(etl, "rollback", "states")
    /\ HasEvent(etl, "connect", "asset devices")
    /\ db.state_id_seq > etl.db0.state_id_seq
    /\ db.state_asset = etl.db0.state_asset
    /\ db.country_asset # etl.db0.country_asset

\* the parent the relations give a state, when the country batch returned it
Resolved(e, state) ==
    \E i \in 1..Len(e.state_country_relations) :
        /\ e.state_country_relations[i].key = state.id
        /\ \E j \in 1..Len(e.country_mapping) :
               e.country_mapping[j].key = e.state_country_relations[i].value

\* the keys of the country rows a state of the batch may be linked to
LinkedTo(e, d, state) ==
    IF Resolved(e, state)
    THEN { e.country_mapping[j].value.db_id :
               j \in { k \in 1..Len(e.country_mapping) :
                          \E i \in 1..Len(e.state_country_relations) :
                              /\ e.state_country_relations[i].key = state.id
                              /\ e.state_country_relations[i].value =
                                     e.country_mapping[k].key } }
    ELSE IF e.country_mapping # << >>
    THEN { e.country_mapping[1].value.db_id }
    ELSE { row.country_id :
               row \in { r \in d.country_asset :
                            r.country_name = DEFAULT_COUNTRY } }

\* C22: every state of a committed state batch has a row whose country_id
\* is the key of an existing country row: the saved country its relation
\* resolved to, else the first country of the country mapping, else the
\* DEFAULT_COUNTRY row the same transaction wrote; and after the batch no
\* state row of the table is without its country row.
C22_StateLinkedToCountry ==
    [][ (BatchEnds("commit") /\ LastEvent(etl').of = "states") =>
            /\ \A i \in 1..Len(etl.states) :
                   \E j \in 1..Len(etl'.state_mapping) :
                       LET m == etl'.state_mapping[j]
                       IN  /\ m.key = etl.states[i].id
                           /\ m.value.country_id
                                  \in LinkedTo(etl, db', etl.states[i])
                           /\ \E row \in db'.state_asset :
                                  /\ row.state_id = m.value.db_id
                                  /\ row.state_name = etl.states[i].name
                                  /\ row.country_id = m.value.country_id
            /\ \A row \in db'.state_asset :
                   \E c \in db'.country_asset :
                       c.country_id = row.country_id ]_vars

\* a committed state batch linked a state to the country its relation
\* resolved to, which is not the first of the mapping
C22_Witness ==
    /\ HasEvent(etl, "commit", "states")
    /\ \E i \in 1..Len(etl.states) :
           /\ Resolved(etl, etl.states[i])
           /\ \E j \in 1..Len(etl.state_mapping) :
                  /\ etl.state_mapping[j].key = etl.states[i].id
                  /\ etl.state_mapping[j].value.country_id
                         # etl.country_mapping[1].value.db_id
                  /\ \E row \in db.state_asset :
                         /\ row.state_id = etl.state_mapping[j].value.db_id
                         /\ row.country_id =
                                etl.state_mapping[j].value.country_id

\* the keys of the rows of a table: primary key with natural key
CountryKeys(d) ==
    { << row.country_id, row.country_name >> : row \in d.country_asset }

StateKeys(d) ==
    { << row.state_id, row.country_id, row.state_name >> :
          row \in d.state_asset }

DeviceKeys(d) ==
    { << row.device_id, row.serial_number >> : row \in d.devices }

\* the names the catalog lists
Listed(t) ==
    { t.assets[i].name : i \in 1..Len(t.assets) } \cup
    { t.devices[i].name : i \in 1..Len(t.devices) }

\* C23: no step of a pass deletes a row.  The keys present in
\* country_asset, state_asset and devices only grow, so the rows of
\* entities the catalog no longer lists stay.
C23_KeysOnlyGrow ==
    [][ /\ CountryKeys(db) \subseteq CountryKeys(db')
        /\ StateKeys(db) \subseteq StateKeys(db')
        /\ DeviceKeys(db) \subseteq DeviceKeys(db') ]_vars

\* a second pass has committed its batches over a catalog that no longer
\* lists a country, a state and a device the tables hold, and has written
\* again a device row that was there
C23_Witness ==
    /\ etl.pass = 2
    /\ etl.pc = "done"
    /\ HasEvent(etl, "commit", "countries")
    /\ HasEvent(etl, "commit", "states")
    /\ HasEvent(etl, "commit", "devices")
    /\ \E row \in db.country_asset :
           row \in etl.db0.country_asset /\ row.country_name \notin Listed(tb)
    /\ \E row \in db.state_asset :
           row \in etl.db0.state_asset /\ row.state_name \notin Listed(tb)
    /\ \E row \in db.devices :
           row \in etl.db0.devices /\ row.device_name \notin Listed(tb)
    /\ \E row \in db.devices :
           \E old \in etl.db0.devices :
               /\ old.serial_number = row.serial_number
               /\ old.device_id = row.device_id
               /\ old # row

\* the serial number the claim gives an entity of a device batch
SerialOf(of, entity) ==
    IF of = "asset devices" THEN << "A", "S", "S", "E", "T", "_" >> \o entity.id[1]
    ELSE IF entity.label # << >> THEN entity.label
    ELSE << "D", "E", "V", "_" >> \o entity.id[1]

\* the entities a device batch was given
BatchOf(of, e) == IF of = "asset devices" THEN e.asset_devices ELSE e.tb_devices

\* firmware and coordinates the last entity of a committed batch is written
\* with, from the answers to its attribute requests
LastWritten(e) ==
    IF e.fetched.of = "asset devices"
    THEN LET found == get_asset_attributes(e.fetched.answers[1])
         IN  << << "1", ".", "0", ".", "0" >>, Coordinates(found[1], found[2]) >>
    ELSE LET found == get_device_attributes(e.fetched.answers[1],
                                            e.fetched.answers[2])
         IN  << found[3], Coordinates(found[1], found[2]) >>

\* the row of serial number s carries what entity i of the batch gave
HoldsLast(of, e, d, i) ==
    LET ds == BatchOf(of, e)
        s == SerialOf(of, ds[i])
    IN  \E row \in d.devices :
            /\ row.serial_number = s
            /\ row.device_name = ds[i].name
            /\ i = Len(ds) =>
                   /\ e.fetched.of = of
                   /\ row.firmware_version = LastWritten(e)[1]
                   /\ << row.location_lat, row.location_lon >>
                          = LastWritten(e)[2]

\* C24: the devices table never holds two rows of one serial number, and
\* after a committed device batch each entity of the batch has the row of
\* its serial number (the label when there is one, else DEV_ or ASSET_ and
\* the first 8 characters of the remote id); entities of one serial number
\* share the row, which carries the name, firmware and coordinates of the
\* one processed last.
C24_OneRowPerSerial ==
    [][ /\ \A r1 \in db'.devices : \A r2 \in db'.devices :
               r1.serial_number = r2.serial_number => r1 = r2
        /\ ( /\ BatchEnds("commit")
             /\ LastEvent(etl').of \in {"asset devices", "devices"} ) =>
                LET of == LastEvent(etl').of
                    ds == BatchOf(of, etl)
                IN  \A i \in 1..Len(ds) :
                        \/ \E j \in (i + 1)..Len(ds) :
                               SerialOf(of, ds[j]) = SerialOf(of, ds[i])
                        \/ HoldsLast(of, etl', db', i) ]_vars

\* a committed batch of catalog devices held two devices of one generated
\* serial number and different names; the row carries the second name
C24_Witness ==
    /\ HasEvent(etl, "commit", "devices")
    /\ etl.pc = "done"
    /\ \E i \in 1..Len(etl.tb_devices) :
           \E j \in (i + 1)..Len(etl.tb_devices) :
               /\ j = Len(etl.tb_devices)
               /\ etl.tb_devices[i].label = << >>
               /\ SerialOf("devices", etl.tb_devices[i])
                      = SerialOf("devices", etl.tb_devices[j])
               /\ etl.tb_devices[i].name # etl.tb_devices[j].name
               /\ HoldsLast("devices", etl, db, j)
               /\ \E row \in db.devices :
                      /\ row.serial_number
                             = SerialOf("devices", etl.tb_devices[j])
                      /\ row.location_lat # 0

\* an attribute request that failed, was answered with another status than
\* 200, or with a body that cannot be read
Unusable(a) == a.raised \/ a.status # 200 \/ a.malformed

\* no answer of the requests made for an entity gives the attribute
Unavailable(answers, attribute) ==
    \A k \in 1..Len(answers) :
        Unusable(answers[k]) \/ answers[k][attribute] = None

\* the ids a device row would be given name no row, so that the insert is
\* refused whatever the attributes are
DeadHome(e, d) ==
    IF e.state_mapping # << >>
    THEN \/ \A row \in d.state_asset :
               row.state_id # e.state_mapping[1].value.db_id
         \/ \A row \in d.country_asset :
               row.country_id # e.state_mapping[1].value.country_id
    ELSE /\ e.country_mapping # << >>
         /\ \A row \in d.country_asset :
                row.country_id # e.country_mapping[1].value.db_id

\* C25: an attribute request that fails, is answered with another status
\* than 200 or with an unreadable body does not abort a device batch: a
\* batch that rolls back met a fault of the database or a refused insert.
\* The committed row has coordinates (0, 0) whenever the latitude or the
\* longitude is unavailable and firmware version "1.0.0" when no
\* firmware attribute was obtained.
C25_AttributeDefaults ==
    [][ ( /\ Len(etl'.log) > Len(etl.log)
          /\ LastEvent(etl').of \in {"asset devices", "devices"} ) =>
            /\ BatchEnds("rollback") =>
                   etl'.faults > etl.faults \/ DeadHome(etl, db)
            /\ BatchEnds("commit") =>
                   LET of == LastEvent(etl').of
                       ds == BatchOf(of, etl)
                       answers == etl'.fetched.answers
                   IN  \E row \in db'.devices :
                           /\ etl'.fetched.of = of
                           /\ row.serial_number = SerialOf(of, ds[Len(ds)])
                           /\ ( \/ Unavailable(answers, "latitude")
                                \/ Unavailable(answers, "longitude") ) =>
                                  /\ row.location_lat = 0
                                  /\ row.location_lon = 0
                           /\ Unavailable(answers, "version") =>
                                  row.firmware_version = << "1", ".", "0", ".", "0" >> ]_vars

\* a catalog device whose server attributes gave a latitude and no
\* longitude, and whose client attributes were refused, has its row at
\* (0, 0) with firmware "1.0.0" in a committed batch
C25_Witness ==
    /\ etl.pc = "done"
    /\ HasEvent(etl, "commit", "devices")
    /\ etl.fetched.of = "devices"
    /\ etl.fetched.answers[1].status = 200
    /\ etl.fetched.answers[1].latitude # None
    /\ etl.fetched.answers[1].longitude = None
    /\ Unusable(etl.fetched.answers[2])
    /\ \E row \in db.devices :
           /\ row.serial_number
                  = SerialOf("devices", etl.tb_devices[Len(etl.tb_devices)])
           /\ row.location_lat = 0
           /\ row.location_lon = 0
           /\ row.firmware_version = << "1", ".", "0", ".", "0" >>

\* the statements of the script in the order they stand in it
ScriptOrder ==
    << "idle", "locate", "validate", "list0", "profC", "profS", "profD",
       "list1", "createState", "stateAttrs", "probe", "linkState",
       "createDevice", "linkDevice", "credentials", "telemetry", "halted" >>

PlaceOf(pc) == CHOOSE i \in 1..Len(ScriptOrder) : ScriptOrder[i] = pc

\* the calls of r up to now are the first calls of s
CallsKept(r, s) ==
    /\ Len(s.calls) >= Len(r.calls)
    /\ SubSeq(s.calls, 1, Len(r.calls)) = r.calls

\* no mutating call of the run was sent twice, and a mutating call that
\* failed is the last call of a run that has ended without completing
MutatingOnce(p) ==
    LET cs == run[p].calls
    IN  \A i \in 1..Len(cs) :
            cs[i].op \in MutatingOps =>
                /\ \A j \in (i + 1)..Len(cs) :
                       ~( /\ cs[j].op = cs[i].op
                          /\ cs[j].name = cs[i].name
                          /\ cs[j].x = cs[i].x
                          /\ cs[j].y = cs[i].y )
                /\ ~cs[i].ok =>
                       /\ i = Len(cs)
                       /\ Halted(p)
                       /\ run[p].outcome # "Done"

AbortedThenCompleted ==
    /\ AllHalted
    /\ Len(hist) >= 2
    /\ \A i \in 1..Len(hist) :
         /\ hist[i].script = "APIProvision"
         /\ hist[i].country = hist[1].country
         /\ hist[i].state = hist[1].state
    /\ NamedLike(assets0, hist[1].state) = {}
    /\ \E i \in 1..(Len(hist) - 1) : hist[i].outcome = "Crash"
    /\ hist[Len(hist)].outcome = "Done"
    /\ \E p \in SeqProcs :
           /\ run[p].outcome = "Done"
           /\ CallsOf(run[p], {"createAsset"}) = << >>

BatchRank(ev) ==
    IF ev.op \notin {"connect", "connect failed", "commit", "rollback"} THEN 0
    ELSE CASE ev.of = "countries" -> 1
           [] ev.of = "states" -> 2
           [] ev.of = "asset devices" -> 3
           [] ev.of = "devices" -> 4
           [] OTHER -> 0

\* the batches of the pass begin and end in the order countries, states,
\* asset devices, devices, each ending before the next begins
BatchesInOrder(e) ==
    \A i \in 1..Len(e.log) : \A j \in (i + 1)..Len(e.log) :
        (BatchRank(e.log[i]) > 0 /\ BatchRank(e.log[j]) > 0) =>
            /\ BatchRank(e.log[i]) <= BatchRank(e.log[j])
            /\ e.log[j].op \in {"connect", "connect failed"} =>
                   BatchRank(e.log[i]) < BatchRank(e.log[j])

\* the batch of rank n is over, or was given nothing
BatchOver(e, n) ==
    \A k \in 1..n :
        \/ \E i \in 1..Len(e.log) :
               /\ BatchRank(e.log[i]) = k
               /\ e.log[i].op \in {"commit", "rollback"}
        \/ k = 1 /\ e.countries = << >>
        \/ k = 2 /\ e.states = << >>
        \/ k = 3 /\ e.asset_devices = << >>

\* the device rows a step has inserted carry the ids the mappings give:
\* those of the first saved state, else the first saved country and its
\* DEFAULT_STATE row
HomeFromMappings(e, d, row) ==
    IF e.state_mapping # << >>
    THEN /\ row.state_id = e.state_mapping[1].value.db_id
         /\ row.country_id = e.state_mapping[1].value.country_id
    ELSE e.country_mapping # << >> =>
             /\ row.country_id = e.country_mapping[1].value.db_id
             /\ \E s \in d.state_asset :
                    /\ s.state_id = row.state_id
                    /\ s.state_name = DEFAULT_STATE
                    /\ s.country_id = row.country_id

\* C28: the persist phase writes countries, then states, then
\* asset-devices, then catalog devices.  The batches begin and end in that
\* order; a step that writes to state_asset comes after the country batch
\* has ended and a step that writes to devices after the state batch has
\* ended; the states are linked to ids of the country mapping the country
\* batch returned and the devices to ids of the mappings the batches
\* before returned.
C28_PersistOrder ==
    [][ /\ BatchesInOrder(etl')
        /\ db'.state_id_seq # db.state_id_seq =>
               /\ etl.pc \in {"saveStates", "saveAssetDevices",
                               "saveTbDevices"}
               /\ BatchOver(etl, 1)
        /\ db'.device_id_seq # db.device_id_seq =>
               /\ etl.pc \in {"saveAssetDevices", "saveTbDevices"}
               /\ BatchOver(etl, 2)
               /\ etl.pc = "saveTbDevices" => BatchOver(etl, 3)
        /\ (BatchEnds("commit") /\ LastEvent(etl').of = "states") =>
               \A j \in 1..Len(etl'.state_mapping) :
                   etl.country_mapping # << >> =>
                       \E k \in 1..Len(etl.country_mapping) :
                           etl.country_mapping[k].value.db_id
                               = etl'.state_mapping[j].value.country_id
        /\ \A row \in db'.devices :
               (\A old \in db.devices : old.device_id # row.device_id) =>
                   HomeFromMappings(etl, db', row) ]_vars

\* a pass has committed its four batches in turn, and a device row written
\* by it carries the ids of the first state the state batch returned
C28_Witness ==
    /\ etl.pc = "done"
    /\ \E i, j, k, l \in 1..Len(etl.log) :
           /\ i < j /\ j < k /\ k < l
           /\ etl.log[i] = Event("commit", "countries")
           /\ etl.log[j] = Event("commit", "states")
           /\ etl.log[k] = Event("commit", "asset devices")
           /\ etl.log[l] = Event("commit", "devices")
    /\ etl.state_mapping # << >>
    /\ \E row \in db.devices :
           /\ row \notin etl.db0.devices
           /\ row.created_at = etl.pass
           /\ row.state_id = etl.state_mapping[1].value.db_id
           /\ row.country_id = etl.state_mapping[1].value.country_id
           /\ \E c \in db.country_asset :
                  /\ c.country_id = row.country_id
                  /\ c.country_name # DEFAULT_COUNTRY

\* the rows of the tables by id, natural key and parent links
Projection(d) ==
    << { << row.country_id, row.country_name >> : row \in d.country_asset },
       { << row.state_id, row.state_name, row.country_id >> :
             row \in d.state_asset },
       { << row.device_id, row.serial_number, row.state_id, row.country_id >> :
             row \in d.devices } >>

\* the pass has left the rows as they were when it began, by id, natural
\* key and parent link, and has inserted none
NothingInserted ==
    /\ Projection(db) = Projection(etl.db0)
    /\ Cardinality(db.country_asset) = Cardinality(etl.db0.country_asset)
    /\ Cardinality(db.state_asset) = Cardinality(etl.db0.state_asset)
    /\ Cardinality(db.devices) = Cardinality(etl.db0.devices)

FetchedRelations ==
    IF etl.relations # << >> THEN tb.relations ELSE << >>

\* the listing holds a Contains edge from asset c to asset s
HasContainsEdge(listing, c, s) ==
    \E i \in 1..Len(listing) :
        /\ listing[i].type = "Contains"
        /\ listing[i].fromType = "ASSET"
        /\ listing[i].toType = "ASSET"
        /\ listing[i].from = c.id
        /\ listing[i].to = s.id

\* relation inference has mapped state s to country c
MappedTo(e, s, c) ==
    \E i \in 1..Len(e.state_country_relations) :
        /\ e.state_country_relations[i].key = s.id
        /\ e.state_country_relations[i].value = c.id

\* C30: once the relations are read, a state is mapped to a country
\* exactly when the fetched listing holds a Contains edge between assets
\* from that country to that state, whatever other parents the state has.
C30_MappedIffCountryEdge ==
    etl.pc \in {"confirm", "saveCountries", "saveStates", "saveAssetDevices",
                "saveTbDevices", "done"} =>
        \A i \in 1..Len(etl.states) : \A j \in 1..Len(etl.countries) :
            MappedTo(etl, etl.states[i], etl.countries[j])
                <=> HasContainsEdge(FetchedRelations, etl.countries[j],
                                    etl.states[i])

\* the answer to a request of the asset fetch was not the one that lets
\* the fetch go on
Refused(answer) == answer.raised \/ answer.status # 200

\* token validation failed, or the asset listing failed or was empty
NothingListed ==
    \/ Refused(etl.asked.who)
    \/ Refused(etl.asked.list)
    \/ tb.assets = << >>

\* C31: a pass whose token validation failed, or whose asset listing failed
\* or was empty, has ended: it asked for no devices and no relations, did
\* not prompt, did not connect to the database, and the tables are as they
\* were when it began.
C31_NoAssetsEndsPass ==
    (etl.pc \notin {"idle", "fetchAssets"} /\ etl.outcome # "ConfigMissing"
        /\ NothingListed) =>
        /\ etl.pc = "done"
        /\ etl.outcome = "NoAssets"
        /\ \A i \in 1..Len(etl.log) :
               etl.log[i] \in {Event("whoami", ""), Event("list", "assets")}
        /\ Refused(etl.asked.who) => ~HasEvent(etl, "list", "assets")
        /\ etl.tb_devices = << >>
        /\ etl.relations = << >>
        /\ etl.response = << >>
        /\ db = etl.db0

\* the token was valid and the asset listing was refused while the catalog
\* held assets and devices and the tables rows of an earlier pass
C31_Witness ==
    /\ etl.pc = "done"
    /\ etl.pass = 2
    /\ ~Refused(etl.asked.who)
    /\ etl.asked.list.status = 403
    /\ tb.assets # << >>
    /\ tb.devices # << >>
    /\ db.devices # {}
    /\ db = etl.db0

\* the listing the run took holds an asset with the state name
StateListed(r) == NamedLike(r.all_assets, r.STATE_NAME) # {}

\* asset a has latitude and longitude in the catalog
HasCoordinates(as, a) == \E x \in as : x.id = a.id

\* a run stands before the attribute write for asset a, which it created
WritingAttributesOf(a) ==
    \E p \in Procs :
        /\ run[p].pc = "stateAttrs"
        /\ run[p].state_asset.id = a.id
        /\ ~StateListed(run[p])
        /\ \E i \in 1..Len(run[p].calls) :
               /\ run[p].calls[i].op = "createAsset"
               /\ run[p].calls[i].ok
               /\ run[p].calls[i].x = a.id

\* C32: a run whose listing holds the state by name sends no create-asset
\* and no attribute-write call, and the state it uses is one of the
\* listing.  An asset gets coordinates only from the run that created it,
\* in the step after the creation: an asset left without coordinates by a
\* failed attribute write stays without them in every later run.
C32_FoundStateLeftAlone ==
    /\ [](\A p \in Procs :
             (ApiRun(run[p]) /\ run[p].pc \notin {"idle", "locate", "validate",
                  "list0", "profC", "profS", "profD", "list1"}
                 /\ run[p].country_asset # NoAsset /\ StateListed(run[p])) =>
                 /\ CallsOf(run[p], {"createAsset", "setAttributes"}) = << >>
                 /\ run[p].state_asset
                        \in NamedLike(run[p].all_assets, run[p].STATE_NAME))
    /\ [][\A a \in assets :
             (~HasCoordinates(attrs, a) /\ ~WritingAttributesOf(a)) =>
                 ~HasCoordinates(attrs', a)]_vars

\* the first run created the state and its attribute write failed; the
\* second run found the state and completed, and the state has no
\* coordinates
C32_Witness ==
    /\ Len(hist) = 2
    /\ hist[1].outcome = "StateCreateFailed"
    /\ hist[2].outcome = "Done"
    /\ Halted(1)
    /\ run[1].state_found
    /\ run[1].state_asset \notin assets0
    /\ run[1].state_asset \in assets
    /\ ~HasCoordinates(attrs, run[1].state_asset)
    /\ CallsOf(run[1], {"createAsset", "setAttributes"}) = << >>

\* the listing of Step 1 is the second listing of a run, the first being
\* the one of Step 0.1 whose result is dropped
Step1Listing(r) == CallsOf(r, {"listAssets"})[2]

Step1ListingFailed(r) ==
    /\ ApiRun(r)
    /\ Len(CallsOf(r, {"listAssets"})) = 2
    /\ ~Step1Listing(r).ok

C34_CountryAndStateDistinct ==
    \A p \in Procs :
        ApiRun(run[p]) =>
            /\ (run[p].country_asset # NoAsset /\ run[p].state_asset # NoAsset) =>
                   run[p].country_asset.id # run[p].state_asset.id
            /\ \A i \in 1..Len(run[p].calls) :
                   (run[p].calls[i].op = "createRelation"
                        /\ run[p].calls[i].name = "ASSET") =>
                       run[p].calls[i].x # run[p].calls[i].y

\* the database ids a mapping carries
MappedIds(mapping) == { mapping[i].value.db_id : i \in 1..Len(mapping) }

\* C35: every database id of the mapping save_countries_to_db or
\* save_states_to_db returned is the id of a committed row: the mapping of a
\* batch that was rolled back holds no id the batch produced, so that no
\* later batch is given the id of a row that is not there.
C35_MappingIdsCommitted ==
    /\ MappedIds(etl.country_mapping) \subseteq
           { row.country_id : row \in db.country_asset }
    /\ MappedIds(etl.state_mapping) \subseteq
           { row.state_id : row \in db.state_asset }

\* what an upsert leaves alone in a row of the devices table
Home(row) ==
    << row.serial_number, row.device_id, row.state_id, row.country_id,
       row.created_at >>

\* what an upsert may write in a row that exists
Written(row) ==
    << row.device_name, row.firmware_version, row.location_lat,
       row.location_lon >>

\* C36: a device upsert on a serial number that has a row changes nothing of
\* the row but device_name, firmware_version, location_lat and location_lon:
\* device_id, state_id, country_id and created_at stay as they were,
\* whatever state and country the pass gives its devices.
C36_ConflictKeepsHome ==
    [][\A old \in db.devices :
           \E row \in db'.devices : Home(row) = Home(old)]_vars

\* the second pass committed its device batch; a row written by the first
\* pass was updated by it and is still under the state of the first pass,
\* which is not the state the second pass gives its devices
C36_Witness ==
    /\ etl.pass > 1
    /\ etl.pc = "done"
    /\ HasEvent(etl, "commit", "devices")
    /\ etl.state_mapping # << >>
    /\ \E row \in db.devices :
           \E old \in etl.db0.devices :
               /\ Home(row) = Home(old)
               /\ Written(row) # Written(old)
               /\ row.created_at < etl.pass
               /\ row.state_id # etl.state_mapping[1].value.db_id
               /\ \E i \in 1..Len(etl.tb_devices) :
                      SerialOf("devices", etl.tb_devices[i])
                          = row.serial_number

\* the row of the state a device row refers to is there and is a state of
\* the country the device row refers to
UnderItsState(d, row) ==
    \E s \in d.state_asset :
        s.state_id = row.state_id /\ s.country_id = row.country_id

\* the state row is the one the mappings of the pass name: the first saved
\* state, else DEFAULT_STATE of the first saved country, else DEFAULT_STATE
\* of DEFAULT_COUNTRY
StateOfPass(e, d, s) ==
    IF e.state_mapping # << >>
    THEN s.state_id = e.state_mapping[1].value.db_id
    ELSE /\ s.state_name = DEFAULT_STATE
         /\ IF e.country_mapping # << >>
            THEN s.country_id = e.country_mapping[1].value.db_id
            ELSE \E c \in d.country_asset :
                     /\ c.country_id = s.country_id
                     /\ c.country_name = DEFAULT_COUNTRY

\* C37: a device row inserted by a pass refers to a state row and to the
\* country that state row refers to, and all device rows a pass inserts
\* refer to one state: the first entry of the state mapping, else
\* DEFAULT_STATE of the first country of the country mapping, else
\* DEFAULT_STATE of DEFAULT_COUNTRY.
C37_DevicesUnderOneState ==
    /\ [](\A row \in db.devices :
              /\ UnderItsState(db, row)
              /\ \A other \in db.devices :
                     other.created_at = row.created_at =>
                         other.state_id = row.state_id)
    /\ [][\A row \in db'.devices \ db.devices :
              row.created_at = etl.pass =>
                  \E s \in db'.state_asset :
                      /\ s.state_id = row.state_id
                      /\ StateOfPass(etl, db', s)]_vars

\* both device batches of a pass were committed and each inserted a row
\* under the first saved state
C37_Witness ==
    /\ etl.pc = "done"
    /\ HasEvent(etl, "commit", "asset devices")
    /\ HasEvent(etl, "commit", "devices")
    /\ etl.state_mapping # << >>
    /\ \E i \in 1..Len(etl.asset_devices) :
           \E row \in db.devices \ etl.db0.devices :
               row.serial_number = SerialOf("asset devices", etl.asset_devices[i])
    /\ \E i \in 1..Len(etl.tb_devices) :
           \E row \in db.devices \ etl.db0.devices :
               row.serial_number = SerialOf("devices", etl.tb_devices[i])

\* the members of a list
Members(seq) == { seq[i] : i \in 1..Len(seq) }

\* the assets of the listing that carry the state profile name as their
\* type, as an auto-created state does
TypedAsState(e) ==
    { a \in Members(e.assets) : a.type = e.cfg.state_profile_name }

\* the two profile names are one name but for their case
SameProfile(cfg) ==
    str_lower(cfg.country_profile_name) = str_lower(cfg.state_profile_name)

\* C38 as stated: for every configuration of profile names, a state the
\* provisioning run created with the state profile name as its type is
\* one of the states of categorize_assets run with that configuration.
C38_CreatedStateIsState ==
    etl.pc = "categorized" =>
        /\ TypedAsState(etl) # {}
        /\ TypedAsState(etl) \subseteq Members(etl.states)

\* C38, amended: it is so for every configuration whose state profile name
\* is not its country profile name, compared ignoring case; the state is
\* then in no other list.
C38_CreatedStateIsStateUnlessSameProfile ==
    (etl.pc = "categorized" /\ ~SameProfile(etl.cfg)) =>
        /\ TypedAsState(etl) # {}
        /\ TypedAsState(etl) \subseteq Members(etl.states)
        /\ TypedAsState(etl) \cap Members(etl.countries) = {}
        /\ TypedAsState(etl) \cap Members(etl.asset_devices) = {}

\* a created state whose name alone would make it a country (three
\* characters at most) is a state by its type; the country the run found is
\* listed beside it
C38_Witness ==
    /\ etl.pc = "categorized"
    /\ ~SameProfile(etl.cfg)
    /\ \E a \in TypedAsState(etl) :
           /\ a \in Members(etl.states)
           /\ Len(a.name) <= 3
    /\ \E a \in Members(etl.assets) : a \notin TypedAsState(etl)

\* the answer is an HTTP error status
ErrorStatus(answer) == ~answer.raised /\ answer.status >= 400

\* the answer is a 2xx status
Status2xx(answer) ==
    ~answer.raised /\ answer.status >= 200 /\ answer.status <= 299

\* the method read the body of the answer as JSON
ReadsBody(op) == op # "delete_device"

\* a result that reports a failure as a value
FailureValue(c) ==
    /\ ~c.result.escaped
    /\ ~c.result.success
    /\ c.result.error # ""
    /\ (c.op = "provision_device" /\ ErrorStatus(c.answer)) =>
           c.result.status_code = Some(c.answer.status)

\* a result that reports success
SuccessValue(c) == ~c.result.escaped /\ c.result.success

\* C39 as stated: every operation of the device service hands back a
\* result: success = false with an error text (and the status code, for an
\* HTTP error in provision_device) after an HTTP error status or a failed
\* request, success = true after a 2xx answer; no failed request leaves the
\* method as an exception.
C39_FailuresAreValues ==
    \A i \in 1..Len(svc.results) :
        LET c == svc.results[i]
        IN  /\ (c.answer.raised \/ ErrorStatus(c.answer)) => FailureValue(c)
            /\ Status2xx(c.answer) => SuccessValue(c)

\* C39, amended: success = true follows a 2xx answer whose body the method
\* could read as JSON, or did not read (delete_device); the rest as stated.
C39_FailuresAreValuesBodyRead ==
    \A i \in 1..Len(svc.results) :
        LET c == svc.results[i]
        IN  /\ (c.answer.raised \/ ErrorStatus(c.answer)) => FailureValue(c)
            /\ (Status2xx(c.answer) /\ (c.answer.json \/ ~ReadsBody(c.op))) =>
                   SuccessValue(c)

\* one object handed back a failure with the status for an HTTP error
\* status of provision_device, a failure for a failed request of another
\* method, and success for a 201 answer with a JSON body
C39_Witness ==
    /\ \E i \in 1..Len(svc.results) :
           /\ svc.results[i].op = "provision_device"
           /\ svc.results[i].answer.status = 401
           /\ svc.results[i].result.status_code = Some(401)
           /\ ~svc.results[i].result.success
    /\ \E i \in 1..Len(svc.results) :
           /\ svc.results[i].op # "provision_device"
           /\ svc.results[i].answer.raised
           /\ ~svc.results[i].result.escaped
           /\ ~svc.results[i].result.success
    /\ \E i \in 1..Len(svc.results) :
           /\ svc.results[i].op = "provision_device"
           /\ svc.results[i].answer.status = 201
           /\ svc.results[i].result.success
           /\ \E d \in devices : d.label = ""

====
